---- MODULE Spec2Model ----
(***************************************************************************)
(* A model of the PocketFlow Python bridge (kernel/py/pocketflow_utils.py):*)
(* work units (BaseNode), retrying units (Node), the Flow orchestrator,    *)
(* the construction operators and the shared context (SharedState).        *)
(*                                                                         *)
(* Spec: a graph of retrying units is wired with BaseNode.next, a start    *)
(* unit is set, and a top-level Flow is run once over it.  The other       *)
(* specifications take the same actions over other inputs: one unit        *)
(* invoked directly (SpecNode, SpecWait, SpecDirect), units that override  *)
(* exec_fallback (SpecFallback), parameter dicts (SpecParams), a sub-flow  *)
(* (SpecNested, SpecSubPost, SpecNestedParams), the operators >> and -     *)
(* (SpecOperators), repeated runs (SpecRerun), two runs in two threads     *)
(* (SpecThreads), the research agent's cyclic graph (SpecResearch), the    *)
(* shared context's to_dict (SpecContext) and units whose prep or post     *)
(* raises (SpecRaises).  LiveSpec is Spec with the fairness of a running   *)
(* interpreter.                                                            *)
(*                                                                         *)
(* In a run, the shared context is the sequence of the units whose post    *)
(* wrote to it, and prep_res is the object prep returned, named by the     *)
(* unit and the invocation that made it; what the objects hold influences  *)
(* no routing or retrying and is not state.                                *)
(***************************************************************************)
EXTENDS Integers, Sequences, FiniteSets, TLC

\* ---------------------------------------------------------------- bounds
NumUnits == 3
MaxRetries == 2
MaxNextCalls == 2
MaxSteps == 3
MaxDepth == 1
MaxRuns == 2
MaxVisits == 3

\* ------------------------------------------------------------ vocabulary
Units == 1..NumUnits

\* Two flows with different params, each run in a thread of its own.
Runs == {"A", "B"}

\* Python's None where a BaseNode is expected (Optional[BaseNode]).
NoNode == 0

\* The sub-flow: a Flow object that is wired as a unit of another flow.
SubFlow == NumUnits + 1

\* The objects that have successors and can be run by a flow.
Nodes == Units \cup {SubFlow}

\* Python's None where an action label is expected (Optional[str]); the
\* model's labels never contain this string as a real label.
None == "None"

\* Labels an edge is registered under.
EdgeLabels == {"default", "x", "y", ""}

\* What post() returns: None, the empty string, "default", a label that may
\* be an edge's ("x") and one that never is ("z").
ActionLabels == {None, "", "default", "x", "z"}

\* An empty dict, the value of self.successors after BaseNode.__init__.
EmptyDict == [k \in {} |-> NoNode]

\* d[k] = v on a dict.
\* A d[k] = v that leaves a key already present alone (dict.setdefault).
DictSet_KeepFirst(d, k, v) == [j \in DOMAIN d \cup {k} |-> IF j \in DOMAIN d THEN d[j] ELSE v]

DictSet(d, k, v) == [j \in DOMAIN d \cup {k} |-> IF j = k THEN v ELSE d[j]]

\* d.get(k): the value, or None when the key is absent.
DictGet(d, k) == IF k \in DOMAIN d THEN d[k] ELSE NoNode

\* Values of exec_res: what exec returned on an attempt, what an overridden
\* exec_fallback returned, or None (the for loop fell through).
ExecOk(u, k) == [kind |-> "ok", unit |-> u, attempt |-> k]
ExecSubstitute(u) == [kind |-> "substitute", unit |-> u, attempt |-> 0]
ExecNone == [kind |-> "None", unit |-> NoNode, attempt |-> 0]
Unset == [kind |-> "unset", unit |-> NoNode, attempt |-> 0]

\* Exceptions: the one exec raised on attempt k of unit u, and _orch's ValueError.
NoError == [kind |-> "none", unit |-> NoNode, attempt |-> 0]
ExecError(u, k) == [kind |-> "Exception", unit |-> u, attempt |-> k]
StartNodeError == [kind |-> "ValueError", unit |-> NoNode, attempt |-> 0]
\* The exception that the prep or the post of unit u raised.
PrepError(u) == [kind |-> "raised by prep", unit |-> u, attempt |-> 0]
PostError(u) == [kind |-> "raised by post", unit |-> u, attempt |-> 0]

\* Values of prep_res: the object prep returned in the n-th unit invocation
\* of the run, of unit u; and the arguments of an exec_fallback call.
NoInput == [unit |-> NoNode, call |-> 0]
PrepRes(u, n) == [unit |-> u, call |-> n]
NoFallbackArgs == [prep_res |-> NoInput, exc |-> NoError]

\* What the engine attaches to an exception e on its way from exec to the
\* caller of run: exec_fallback does `raise exc` and _exec, _run, _orch and run
\* have no except clause that wraps or annotates it, so neither the unit nor
\* its prep_res is attached.  (The fields `unit` and `attempt` of the values
\* above tell the model which raise made the exception; the object itself
\* holds what the author's exec gave it.)
NoContext == [unit |-> NoNode, prep_res |-> Unset]
Attached(e) == NoContext

\* ConditionalTransition objects, and the absence of one.
NoTransition == [src |-> NoNode, action |-> None]
ConditionalTransition(src, action) == [src |-> src, action |-> action]

\* Values of construction expressions: a unit, a ConditionalTransition, or
\* nothing yet.
NoValue == [kind |-> "none", node |-> NoNode]
UnitValue(node) == [kind |-> "unit", node |-> node]
TransitionValue == [kind |-> "transition", node |-> NoNode]

VARIABLES
    successors,      \* BaseNode.successors of every unit: a dict label -> unit
    start_node,      \* Flow.start_node
    max_retries,     \* Node.max_retries of every unit
    overrides,       \* whether the unit's class overrides exec_fallback
    next_calls,      \* number of BaseNode.next calls made so far
    pc,              \* where the program is
    caller,          \* who called the unit's _run: BaseNode.run or Flow._orch
    current,         \* _orch's local `current`
    last_action,     \* _orch's local `last_action`
    retry,           \* Node._exec's loop variable
    exc,             \* the exception Node._exec has caught last
    exec_res,        \* BaseNode._run's local `exec_res`
    shared,          \* the shared context: the units whose post wrote, in order
    printed,         \* what print() has written, in order
    result,          \* what flow.run returned
    error,           \* the exception that left flow.run
    executed,        \* history: the units whose _run was entered, in order
    exec_calls,      \* history: calls of exec in the unit invocation in progress
    fallback_calls,  \* history: calls of exec_fallback in the invocation in progress
    shared_at_entry, \* history: the shared context when the latest invocation began
    registered,      \* history: per unit and label, the targets next() was given, in order
    flow_params,     \* the dict that is the top-level flow's self.params
    own_params,      \* per node, the dict its self.params is after construction
    p,               \* the dict that is the local `p` of the _orch in progress
    params,          \* per node, which dict its self.params now is: "own" or "p"
    params_at_entry, \* history: self.params of the latest unit when its _run began
    sub_start,       \* the sub-flow's start_node
    stack,           \* the locals of the _orch calls that wait for a sub-flow
    frame,           \* the _orch call in progress: 0 for the top-level flow's, and for
                     \* a sub-flow's the index in `executed` of the first unit it runs
    frame_of,        \* history: per entry of `executed`, the _orch call that ran it
    transition,      \* the ConditionalTransition made last: its src and action
    yielded,         \* the value of the construction expression evaluated last
    sub_post,        \* the sub-flow's class: whether it overrides Flow.post, and
                     \* what its post then returns
    runs,            \* number of flow.run calls begun so far
    t_pc,            \* per concurrent run: where its thread is
    t_current,       \* per concurrent run: its _orch's local `current`
    holds,           \* per unit, under concurrent runs: the dict its self.params
                     \* is, its own or the p of a run
    max_steps,       \* the cap on the loop iterations of a run explored here
    data,            \* SharedState.data of a context: a dict key -> value
    snapshot_ref,    \* which dict object the latest to_dict returned: none yet,
                     \* a new dict, or the context's own data
    snapshot,        \* the items of that dict if it is a new one
    data_at_call,    \* history: the context's data when to_dict was called last
    wait,            \* Node.wait of every unit
    sleeps,          \* history: calls of time.sleep in the unit invocation in progress
    prep_res,        \* BaseNode._run's local `prep_res`
    prep_calls,      \* history: calls of prep in the unit invocation in progress
    exec_given,      \* history: the inputs exec was called with in the invocation
    fallback_given   \* history: the arguments exec_fallback was called with

vars == <<successors, start_node, max_retries, overrides, next_calls, pc, caller, current,
          last_action, retry, exc, exec_res, shared, printed, result, error,
          executed, exec_calls, fallback_calls, shared_at_entry, registered,
          flow_params, own_params, p, params, params_at_entry,
          sub_start, stack, frame, frame_of, transition, yielded, sub_post,
          runs, t_pc, t_current, holds, max_steps,
          data, snapshot_ref, snapshot, data_at_call, wait, sleeps,
          prep_res, prep_calls, exec_given, fallback_given>>

graph == <<successors, start_node, max_retries, overrides, next_calls>>
history == <<executed, exec_calls, fallback_calls, shared_at_entry>>
wiring == <<registered>>
parameters == <<flow_params, own_params, p, params, params_at_entry>>
nesting == <<sub_start, stack, frame, frame_of>>
construction == <<transition, yielded>>
flow_class == <<sub_post>>
calls == <<runs>>
threads == <<t_pc, t_current, holds>>
caps == <<max_steps>>
context == <<data, snapshot_ref, snapshot, data_at_call>>
waiting == <<wait, sleeps>>
inputs == <<prep_res, prep_calls, exec_given, fallback_given>>

\* ------------------------------------------------------------- routing

\* `"default" if action is None else action`: only None stands for "default".
ActionOrDefault_NoneOnly(action) ==
    IF action = None THEN "default" ELSE action

\* `action or "default"`: None and the empty string are falsy.
ActionOrDefault(action) ==
    IF action = None \/ action = "" THEN "default" ELSE action

\* get_next_node without its single-successor rule.
GetNextNode_NoSingle(succ, action) ==
    LET exact == DictGet(succ, ActionOrDefault(action))
    IN  IF exact = NoNode /\ "default" \in DOMAIN succ THEN succ["default"] ELSE exact

\* get_next_node without its default-successor rule.
GetNextNode_NoDefault(succ, action) ==
    LET exact == DictGet(succ, ActionOrDefault(action))
    IN  IF exact = NoNode /\ Cardinality(DOMAIN succ) = 1
        THEN succ[CHOOSE k \in DOMAIN succ : TRUE]
        ELSE exact

\* get_next_node that looks the returned label up as it is and knows no
\* "default": `successors.get(action)` and the single-successor rule only.
GetNextNode_RawLookup(succ, action) ==
    LET exact == DictGet(succ, action)
    IN  IF exact = NoNode /\ Cardinality(DOMAIN succ) = 1
        THEN succ[CHOOSE k \in DOMAIN succ : TRUE]
        ELSE exact

\* get_next_node that goes back to the flow's start node at a unit without
\* successors instead of ending the flow.
GetNextNode_Restart(succ, action) ==
    IF DOMAIN succ = {}
    THEN start_node
    ELSE DictGet(succ, ActionOrDefault(action))

\* get_next_node with the exact lookup only: no single-successor rule and
\* no default-successor rule.
GetNextNode_ExactOnly(succ, action) ==
    DictGet(succ, ActionOrDefault(action))

\* Flow.get_next_node's return value for a unit whose edge mapping is succ.
GetNextNode(succ, action) ==
    LET exact == DictGet(succ, ActionOrDefault(action))
        single == IF exact = NoNode /\ Cardinality(DOMAIN succ) = 1
                  THEN succ[CHOOSE k \in DOMAIN succ : TRUE]
                  ELSE exact
        dflt == IF single = NoNode /\ "default" \in DOMAIN succ
                THEN succ["default"]
                ELSE single
    IN  dflt

\* get_next_node warning whenever it found no next node.
RouteWarns_Always(succ, action) ==
    GetNextNode(succ, action) = NoNode

\* Whether Flow.get_next_node prints its warning.
RouteWarns(succ, action) ==
    GetNextNode(succ, action) = NoNode /\ DOMAIN succ # {}

RouteWarning(succ, action) ==
    [kind |-> "flow_ends", action |-> action, keys |-> DOMAIN succ]

OverwriteWarning(action) ==
    [kind |-> "overwrite", action |-> action, keys |-> {}]

\* --------------------------------------------------------------- retry

\* The fallback taken on the first failure, whatever max_retries is.
IsLastRetry_First(u, r) == r = 0

\* `retry == self.max_retries - 1`
IsLastRetry(u, r) == r = max_retries[u] - 1

\* A loop that makes one attempt even when max_retries is 0.
InRange_AtLeastOnce(u, r) == r < max_retries[u] \/ r = 0

\* `for retry in range(self.max_retries)`: whether the loop has a value r.
InRange(u, r) == r < max_retries[u]

\* An exec_fallback that raises whatever the unit's class defines.
ExecFallbackRaises_Always(u) == TRUE

\* An exec_fallback that swallows the exception and returns.
ExecFallbackRaises_Never(u) == FALSE

\* Whether u's exec_fallback raises the exception it is given: Node's own
\* does (`raise exc`), an override returns a substitute result.
ExecFallbackRaises(u) == ~overrides[u]

\* A Flow.post that returns nothing.
FlowPost_Null(orch_res) == None

\* A Flow.post that returns the label routing looked up.
FlowPost_LookedUp(orch_res) == ActionOrDefault(orch_res)

\* Flow.post: `return exec_res`, where exec_res is what _orch returned.
FlowPost(orch_res) == orch_res

\* An _exec that keeps the first exception it caught.
Caught_First(old, new) == IF old = NoError THEN new ELSE old

\* `except Exception as e:` in an iteration of the loop: e is the exception
\* this attempt raised, whatever an earlier iteration caught.
Caught(old, new) == new

\* A delay that is slept whatever its length.
Sleeps_Always(u) == TRUE

\* `if self.wait > 0:` before time.sleep(self.wait).
Sleeps(u) == wait[u] > 0

\* A start-node test that lets a flow without a start node through.
StartNodeMissing_Never == FALSE

\* `not self.start_node` in Flow._orch.
StartNodeMissing == start_node = NoNode

\* ------------------------------------------------------- initial state

\* Node.__init__'s default for max_retries.
DefaultMaxRetries == 1
DefaultWait == 0

\* The state after the units and the flow are constructed: Node(max_retries=m)
\* for an m of `choices`, of a class that overrides exec_fallback or does not,
\* as `classes` allows (every unit of one graph is built with the same
\* arguments and is of the same class), and Flow() with no start node.
UnwiredWith(choices, classes, waits) ==
    /\ successors = [u \in Nodes |-> EmptyDict]
    /\ start_node = NoNode
    /\ \E m \in choices : max_retries = [u \in Units |-> m]
    /\ \E w \in waits : wait = [u \in Units |-> w]
    /\ \E o \in classes : overrides = [u \in Units |-> o]
    /\ next_calls = 0
    /\ registered = [u \in Nodes |-> << >>]
    /\ max_steps = MaxSteps

\* Units built without a wait argument: Node(max_retries=m).
Unwired(choices, classes) == UnwiredWith(choices, classes, {DefaultWait})

\* No run has begun, and no construction expression has been evaluated.
NotRun ==
    /\ pc = "build"
    /\ sleeps = 0
    /\ prep_res = NoInput
    /\ prep_calls = 0
    /\ exec_given = {}
    /\ fallback_given = NoFallbackArgs
    /\ caller = "none"
    /\ current = NoNode
    /\ last_action = None
    /\ retry = 0
    /\ exc = NoError
    /\ exec_res = Unset
    /\ shared = << >>
    /\ printed = << >>
    /\ result = None
    /\ error = NoError
    /\ executed = << >>
    /\ exec_calls = 0
    /\ fallback_calls = 0
    /\ shared_at_entry = << >>
    /\ p = EmptyDict
    /\ params = [u \in Nodes |-> "own"]
    /\ params_at_entry = EmptyDict
    /\ sub_start = NoNode
    /\ stack = << >>
    /\ frame = 0
    /\ frame_of = << >>
    /\ transition = NoTransition
    /\ yielded = NoValue
    /\ runs = 0
    /\ t_pc = [t \in Runs |-> "idle"]
    /\ t_current = [t \in Runs |-> NoNode]
    /\ holds = [u \in Units |-> "own"]
    /\ data = EmptyDict
    /\ snapshot_ref = "none"
    /\ snapshot = EmptyDict
    /\ data_at_call = EmptyDict

Constructed(choices, classes) == Unwired(choices, classes) /\ NotRun

\* The sub-flow is a Flow: its post is Flow.post.
InheritedPost == [overridden |-> FALSE, returns |-> None]

\* The sub-flow is of a subclass of Flow whose post returns the label `action`.
OverriddenPost(action) == [overridden |-> TRUE, returns |-> action]

\* No set_params call is made before the run: every self.params is the {}
\* of BaseNode.__init__.
NoParams ==
    /\ flow_params = EmptyDict
    /\ own_params = [u \in Nodes |-> EmptyDict]

\* The parameter keys, and the dicts set_params is given before the run.
ParamKeys == {"k", "j"}
GivenValue == "v0"
WrittenValue == "v1"
\* d.get(key) of a parameter dict: None for a key it lacks.
ParamGet(d, key) == IF key \in DOMAIN d THEN d[key] ELSE None

ParamDicts == UNION {[keys -> {GivenValue}] : keys \in SUBSET ParamKeys}

\* flow.set_params(f), and u.set_params(o) for every node u (each with a
\* dict of its own), were called before the run.
GivenParams ==
    \E f \in ParamDicts, o \in ParamDicts :
        /\ flow_params = f
        /\ own_params = [u \in Nodes |-> o]

\* A graph of units built by Node(), of a class with Node's own exec_fallback.
Init == Constructed({DefaultMaxRetries}, {FALSE}) /\ NoParams /\ sub_post = InheritedPost

\* A unit built by Node(max_retries=m), 0 <= m <= MaxRetries.
InitNode == Constructed(0..MaxRetries, BOOLEAN) /\ NoParams /\ sub_post = InheritedPost

\* Node(max_retries=m, wait=w), with no delay or with one.
InitWait ==
    /\ UnwiredWith(0..MaxRetries, BOOLEAN, {DefaultWait, 1})
    /\ NotRun
    /\ NoParams
    /\ sub_post = InheritedPost

\* A graph of units built by Node(), of a class whose exec_fallback returns
\* a substitute.
InitOverriding == Constructed({DefaultMaxRetries}, {TRUE}) /\ NoParams /\ sub_post = InheritedPost

\* A graph of units built by Node(), with parameters set.
InitParams == Constructed({DefaultMaxRetries}, BOOLEAN) /\ GivenParams /\ sub_post = InheritedPost

\* -------------------------------------------------- graph construction

\* The units the construction code has mentioned so far.
Mentioned ==
    {u \in Units : \/ u = start_node
                   \/ u = sub_start
                   \/ u = transition.src
                   \/ DOMAIN successors[u] # {}
                   \/ \E v \in Nodes : \E k \in DOMAIN successors[v] : successors[v][k] = u}

\* The units the construction code may mention next, given that it has
\* mentioned those of `seen`: one of them, or the next unit not yet mentioned.
\* Units are of one class and built alike, so they are numbered in the order
\* of their first mention.
Mentionable(seen) == {u \in Units : u <= Cardinality(seen \cap Units) + 1}

\* The body of BaseNode.next(node, action) on the unit src.
Registers(src, node, action) ==
    /\ pc = "build"
    /\ next_calls < MaxNextCalls
    /\ next_calls' = next_calls + 1
    /\ successors' = [successors EXCEPT ![src] = DictSet(@, action, node)]
    /\ src \in Mentionable(Mentioned) \cup {SubFlow}
    /\ node \in Mentionable(Mentioned \cup {src}) \cup {SubFlow}
    /\ printed' = IF action \in DOMAIN successors[src]
                  THEN Append(printed, OverwriteWarning(action))
                  ELSE printed
    /\ registered' = [registered EXCEPT ![src] =
                         [k \in DOMAIN @ \cup {action} |->
                             IF k # action THEN @[k]
                             ELSE IF k \in DOMAIN @ THEN Append(@[k], node)
                             ELSE <<node>>]]
    /\ UNCHANGED <<start_node, max_retries, overrides, pc, caller, current,
                   last_action, retry, exc, exec_res, shared, result, error>>
    /\ UNCHANGED history
    /\ UNCHANGED parameters
    /\ UNCHANGED nesting
    /\ UNCHANGED flow_class
    /\ UNCHANGED calls
    /\ UNCHANGED threads
    /\ UNCHANGED caps
    /\ UNCHANGED context
    /\ UNCHANGED waiting
    /\ UNCHANGED inputs

\* The statement src.next(node, action): the unit it returns is dropped.
NodeNext(src, node, action) ==
    /\ Registers(src, node, action)
    /\ UNCHANGED construction

\* A `>>` that registers under the empty label.
DefaultAction_Empty == ""

\* The default of next's parameter `action`.
DefaultAction == "default"

\* src >> other: `return self.next(other)`, and next returns its node.
Rshift(src, other) ==
    /\ yielded' = UnitValue(other)
    /\ Registers(src, other, DefaultAction)
    /\ UNCHANGED transition

\* src - action: `return ConditionalTransition(self, action)`.  The
\* construction code applies the transition it has formed before it forms
\* another one.
Sub(src, action) ==
    /\ pc = "build"
    /\ yielded # TransitionValue
    /\ transition' = ConditionalTransition(src, action)
    /\ yielded' = TransitionValue
    /\ src \in Mentionable(Mentioned)
    /\ UNCHANGED graph
    /\ UNCHANGED <<pc, caller, current, last_action, retry, exc, exec_res, shared,
                   printed, result, error>>
    /\ UNCHANGED history
    /\ UNCHANGED wiring
    /\ UNCHANGED parameters
    /\ UNCHANGED nesting
    /\ UNCHANGED flow_class
    /\ UNCHANGED calls
    /\ UNCHANGED threads
    /\ UNCHANGED caps
    /\ UNCHANGED context
    /\ UNCHANGED waiting
    /\ UNCHANGED inputs

\* transition >> target: `return self.src.next(target, self.action)`.
TransitionRshift(target) ==
    /\ transition # NoTransition
    /\ yielded' = UnitValue(target)
    /\ Registers(transition.src, target, transition.action)
    /\ UNCHANGED transition

\* sub.start(node), for the sub-flow
SubStart(node) ==
    /\ pc = "build"
    /\ sub_start = NoNode
    /\ node \in Mentionable(Mentioned)
    /\ sub_start' = node
    /\ UNCHANGED graph
    /\ UNCHANGED <<pc, caller, current, last_action, retry, exc, exec_res, shared,
                   printed, result, error>>
    /\ UNCHANGED history
    /\ UNCHANGED wiring
    /\ UNCHANGED parameters
    /\ UNCHANGED <<stack, frame, frame_of>>
    /\ UNCHANGED construction
    /\ UNCHANGED flow_class
    /\ UNCHANGED calls
    /\ UNCHANGED threads
    /\ UNCHANGED caps
    /\ UNCHANGED context
    /\ UNCHANGED waiting
    /\ UNCHANGED inputs

\* flow.start(node)
FlowStart(node) ==
    /\ pc = "build"
    /\ start_node = NoNode
    /\ node \in Mentionable(Mentioned) \cup {SubFlow}
    /\ start_node' = node
    /\ UNCHANGED <<successors, max_retries, overrides, next_calls, pc, caller,
                   current, last_action, retry, exc, exec_res, shared, printed,
                   result, error>>
    /\ UNCHANGED history
    /\ UNCHANGED wiring
    /\ UNCHANGED parameters
    /\ UNCHANGED nesting
    /\ UNCHANGED construction
    /\ UNCHANGED flow_class
    /\ UNCHANGED calls
    /\ UNCHANGED threads
    /\ UNCHANGED caps
    /\ UNCHANGED context
    /\ UNCHANGED waiting
    /\ UNCHANGED inputs

\* --------------------------------------------------- a unit's lifecycle

\* A set_params that merges: self.params.update(params).
ParamsIn_Merged(ref, given, own) ==
    IF ref = "p"
    THEN [k \in DOMAIN own \cup DOMAIN given |-> IF k \in DOMAIN given THEN given[k] ELSE own[k]]
    ELSE own

\* What self.params holds: set_params makes it the dict it is given, and
\* before that it is the node's own.
ParamsIn(ref, given, own) == IF ref = "p" THEN given ELSE own

\* self.params as the node u reads it.
ParamsOf(u) == ParamsIn(params[u], p, own_params[u])

\* BaseNode._run is entered for unit u (history only: the invocation begins).
EnterRun(u) ==
    /\ executed' = Append(executed, u)
    /\ exec_calls' = 0
    /\ fallback_calls' = 0
    /\ shared_at_entry' = shared
    /\ exec_res' = Unset
    /\ exc' = NoError
    /\ frame_of' = Append(frame_of, frame)
    /\ params_at_entry' = ParamsIn(params'[u], p', own_params'[u])

\* prep_res = self.prep(shared): reads the context only; _exec is entered.
Prep ==
    /\ pc = "prep"
    /\ pc' = "exec"
    /\ retry' = 0
    /\ prep_res' = PrepRes(current, Len(executed))
    /\ prep_calls' = prep_calls + 1
    /\ UNCHANGED <<exec_given, fallback_given>>
    /\ UNCHANGED graph
    /\ UNCHANGED wiring
    /\ UNCHANGED parameters
    /\ UNCHANGED nesting
    /\ UNCHANGED <<caller, current, last_action, exc, exec_res, shared, printed,
                   result, error>>
    /\ UNCHANGED history
    /\ UNCHANGED construction
    /\ UNCHANGED flow_class
    /\ UNCHANGED calls
    /\ UNCHANGED threads
    /\ UNCHANGED caps
    /\ UNCHANGED context
    /\ UNCHANGED waiting

\* A retry loop around prep and exec together.
RetryAt_Prep == "prep"

\* Where a failed attempt that is not the last goes on: the for loop is
\* inside _exec, so with the next call of exec.
RetryAt == "exec"

\* Node._exec with `self.exec(prep_res)` in place of `return self.exec(prep_res)`:
\* a successful attempt's value is dropped and the loop goes on.
NodeExec_NoReturn ==
    /\ pc = "exec"
    /\ IF ~InRange(current, retry)
       THEN /\ exec_res' = ExecNone
            /\ pc' = "post"
            /\ UNCHANGED <<retry, exc, exec_calls, sleeps, exec_given>>
       ELSE /\ exec_calls' = exec_calls + 1
            /\ exec_given' = exec_given \cup {prep_res}
            /\ \E ok \in BOOLEAN :
                 IF ok
                 THEN /\ pc' = "exec"
                      /\ retry' = retry + 1
                      /\ UNCHANGED <<exec_res, exc, sleeps>>
                 ELSE /\ exc' = Caught(exc, ExecError(current, exec_calls + 1))
                      /\ IF IsLastRetry(current, retry)
                         THEN pc' = "fallback" /\ UNCHANGED <<retry, sleeps>>
                         ELSE /\ pc' = RetryAt
                              /\ retry' = retry + 1
                              /\ sleeps' = IF Sleeps(current) THEN sleeps + 1 ELSE sleeps
                      /\ UNCHANGED exec_res
    /\ UNCHANGED wait
    /\ UNCHANGED <<prep_res, prep_calls, fallback_given>>
    /\ UNCHANGED graph
    /\ UNCHANGED wiring
    /\ UNCHANGED parameters
    /\ UNCHANGED nesting
    /\ UNCHANGED <<caller, current, last_action, shared, printed, result, error>>
    /\ UNCHANGED <<executed, fallback_calls, shared_at_entry>>
    /\ UNCHANGED construction
    /\ UNCHANGED flow_class
    /\ UNCHANGED calls
    /\ UNCHANGED threads
    /\ UNCHANGED caps
    /\ UNCHANGED context

\* One step of Node._exec's loop `for retry in range(self.max_retries)`:
\* the range is exhausted and _exec returns None, or exec is attempted and
\* returns (ok) or raises, which runs the except clause (the fallback on the
\* last retry, else the optional sleep and the next iteration).
NodeExec ==
    /\ pc = "exec"
    /\ IF ~InRange(current, retry)
       THEN /\ exec_res' = ExecNone
            /\ pc' = "post"
            /\ UNCHANGED <<retry, exc, exec_calls, sleeps, exec_given>>
       ELSE /\ exec_calls' = exec_calls + 1
            /\ exec_given' = exec_given \cup {prep_res}
            /\ \E ok \in BOOLEAN :
                 IF ok
                 THEN /\ exec_res' = ExecOk(current, exec_calls + 1)
                      /\ pc' = "post"
                      /\ UNCHANGED <<retry, exc, sleeps>>
                 ELSE /\ exc' = Caught(exc, ExecError(current, exec_calls + 1))
                      /\ IF IsLastRetry(current, retry)
                         THEN pc' = "fallback" /\ UNCHANGED <<retry, sleeps>>
                         ELSE /\ pc' = RetryAt
                              /\ retry' = retry + 1
                              /\ sleeps' = IF Sleeps(current) THEN sleeps + 1 ELSE sleeps
                      /\ UNCHANGED exec_res
    /\ UNCHANGED wait
    /\ UNCHANGED <<prep_res, prep_calls, fallback_given>>
    /\ UNCHANGED graph
    /\ UNCHANGED wiring
    /\ UNCHANGED parameters
    /\ UNCHANGED nesting
    /\ UNCHANGED <<caller, current, last_action, shared, printed, result, error>>
    /\ UNCHANGED <<executed, fallback_calls, shared_at_entry>>
    /\ UNCHANGED construction
    /\ UNCHANGED flow_class
    /\ UNCHANGED calls
    /\ UNCHANGED threads
    /\ UNCHANGED caps
    /\ UNCHANGED context

\* self.exec_fallback(prep_res, e): Node's own raises e, which leaves _exec,
\* _run, _orch and run; an override returns a substitute result.
ExecFallback ==
    /\ pc = "fallback"
    /\ fallback_calls' = fallback_calls + 1
    /\ fallback_given' = [prep_res |-> prep_res, exc |-> exc]
    /\ UNCHANGED <<prep_res, prep_calls, exec_given>>
    /\ IF ExecFallbackRaises(current)
       THEN /\ error' = exc
            /\ pc' = "error"
            /\ UNCHANGED exec_res
       ELSE /\ exec_res' = ExecSubstitute(current)
            /\ pc' = "post"
            /\ UNCHANGED error
    /\ UNCHANGED graph
    /\ UNCHANGED wiring
    /\ UNCHANGED parameters
    /\ UNCHANGED nesting
    /\ UNCHANGED <<caller, current, last_action, retry, exc, shared, printed, result>>
    /\ UNCHANGED <<executed, exec_calls, shared_at_entry>>
    /\ UNCHANGED construction
    /\ UNCHANGED flow_class
    /\ UNCHANGED calls
    /\ UNCHANGED threads
    /\ UNCHANGED caps
    /\ UNCHANGED context
    /\ UNCHANGED waiting

\* self.post(shared, prep_res, exec_res): writes the context and returns a
\* label; _orch stores it in last_action, run returns it to its caller.
\* _run returns, so its locals and those of _exec are gone.
Post(action) ==
    /\ pc = "post"
    /\ shared' = Append(shared, current)
    /\ sleeps' = 0
    /\ UNCHANGED wait
    /\ prep_res' = NoInput
    /\ prep_calls' = 0
    /\ exec_given' = {}
    /\ fallback_given' = NoFallbackArgs
    /\ exec_res' = Unset
    /\ exc' = NoError
    /\ retry' = 0
    /\ exec_calls' = 0
    /\ fallback_calls' = 0
    /\ IF caller = "_orch"
       THEN /\ last_action' = action
            /\ pc' = "route"
            /\ UNCHANGED result
       ELSE /\ result' = action
            /\ pc' = "done"
            /\ UNCHANGED last_action
    /\ UNCHANGED graph
    /\ UNCHANGED wiring
    /\ UNCHANGED parameters
    /\ UNCHANGED nesting
    /\ UNCHANGED <<caller, current, printed, error>>
    /\ UNCHANGED <<executed, shared_at_entry>>
    /\ UNCHANGED construction
    /\ UNCHANGED flow_class
    /\ UNCHANGED calls
    /\ UNCHANGED threads
    /\ UNCHANGED caps
    /\ UNCHANGED context

\* ------------------------------------------- failures outside exec

\* self.prep(shared) raises: BaseNode._run has no try, and Node._exec's is
\* not entered yet, so the exception leaves _run, _orch and run.
PrepRaises ==
    /\ pc = "prep"
    /\ current \in Units
    /\ prep_calls' = prep_calls + 1
    /\ error' = PrepError(current)
    /\ pc' = "error"
    /\ UNCHANGED <<prep_res, exec_given, fallback_given, exc>>
    /\ UNCHANGED graph
    /\ UNCHANGED wiring
    /\ UNCHANGED parameters
    /\ UNCHANGED nesting
    /\ UNCHANGED <<caller, current, last_action, retry, exec_res, shared, printed, result>>
    /\ UNCHANGED history
    /\ UNCHANGED construction
    /\ UNCHANGED flow_class
    /\ UNCHANGED calls
    /\ UNCHANGED threads
    /\ UNCHANGED caps
    /\ UNCHANGED context
    /\ UNCHANGED waiting

\* A post whose exception is handed to exec_fallback, as exec's is.
PostRaises_Caught ==
    /\ pc = "post"
    /\ current \in Units
    /\ exc' = PostError(current)
    /\ pc' = "fallback"
    /\ UNCHANGED <<inputs, error>>
    /\ UNCHANGED graph
    /\ UNCHANGED wiring
    /\ UNCHANGED parameters
    /\ UNCHANGED nesting
    /\ UNCHANGED <<caller, current, last_action, retry, exec_res, shared, printed, result>>
    /\ UNCHANGED history
    /\ UNCHANGED construction
    /\ UNCHANGED flow_class
    /\ UNCHANGED calls
    /\ UNCHANGED threads
    /\ UNCHANGED caps
    /\ UNCHANGED context
    /\ UNCHANGED waiting

\* self.post(shared, prep_res, exec_res) raises before it has written the
\* context: _exec has returned, so its try is left, and the exception leaves
\* _run, _orch and run.
PostRaises ==
    /\ pc = "post"
    /\ current \in Units
    /\ error' = PostError(current)
    /\ pc' = "error"
    /\ UNCHANGED <<inputs, exc>>
    /\ UNCHANGED graph
    /\ UNCHANGED wiring
    /\ UNCHANGED parameters
    /\ UNCHANGED nesting
    /\ UNCHANGED <<caller, current, last_action, retry, exec_res, shared, printed, result>>
    /\ UNCHANGED history
    /\ UNCHANGED construction
    /\ UNCHANGED flow_class
    /\ UNCHANGED calls
    /\ UNCHANGED threads
    /\ UNCHANGED caps
    /\ UNCHANGED context
    /\ UNCHANGED waiting

\* ------------------------------------------------- direct invocation

MisuseWarning == [kind |-> "no_successors_run", action |-> None, keys |-> {}]

\* A run() that never warns.
RunWarns_Never(u) == FALSE

\* `if self.successors:` in BaseNode.run.
RunWarns(u) == DOMAIN successors[u] # {}

\* u.run(shared): warns when u has successors, then enters u._run.
NodeRun(u) ==
    /\ pc = "build"
    /\ printed' = IF RunWarns(u)
                  THEN Append(printed, MisuseWarning)
                  ELSE printed
    /\ caller' = "run"
    /\ current' = u
    /\ pc' = "prep"
    /\ UNCHANGED <<flow_params, own_params, p, params>>
    /\ EnterRun(u)
    /\ UNCHANGED graph
    /\ UNCHANGED wiring
    /\ UNCHANGED <<sub_start, stack, frame>>
    /\ UNCHANGED <<last_action, retry, shared, result, error>>
    /\ UNCHANGED construction
    /\ UNCHANGED flow_class
    /\ UNCHANGED calls
    /\ UNCHANGED threads
    /\ UNCHANGED caps
    /\ UNCHANGED context
    /\ UNCHANGED waiting
    /\ UNCHANGED inputs

\* ---------------------------------------------------------- the flow

\* {**d}: a new dict with the items of d.
CopyOf(d) == [k \in DOMAIN d |-> d[k]]

\* flow.run(shared) up to the loop of _orch: BaseNode.run (the top-level flow
\* has no successors), Flow._run, Flow.prep, and _orch's start-node test.
FlowRun ==
    /\ pc = "build"
    /\ runs' = runs + 1
    /\ IF StartNodeMissing
       THEN /\ pc' = "error"
            /\ error' = StartNodeError
            /\ UNCHANGED <<caller, current, last_action, p>>
       ELSE /\ pc' = "orch"
            /\ caller' = "_orch"
            /\ current' = start_node
            /\ p' = CopyOf(flow_params)
            /\ last_action' = None
            /\ UNCHANGED error
    /\ UNCHANGED graph
    /\ UNCHANGED wiring
    /\ UNCHANGED <<flow_params, own_params, params, params_at_entry>>
    /\ UNCHANGED nesting
    /\ UNCHANGED <<retry, exc, exec_res, shared, printed, result>>
    /\ UNCHANGED history
    /\ UNCHANGED construction
    /\ UNCHANGED flow_class
    /\ UNCHANGED threads
    /\ UNCHANGED caps
    /\ UNCHANGED context
    /\ UNCHANGED waiting
    /\ UNCHANGED inputs

\* A loop that starts the next unit while the current one has yet to finalize.
AtLoopTop_Early == pc \in {"orch", "post"}

\* Control is at the head of `while current:`: the previous current._run has
\* returned and get_next_node has chosen the unit to run.
AtLoopTop == pc = "orch"

\* A set_params that hands p to every unit of the graph.
SetParams_All(ps, u) == [v \in DOMAIN ps |-> "p"]

\* u.set_params(p): `self.params = params`; the unit's params is now the
\* dict p, its other attributes and the other units are as they were.
SetParams(ps, u) == [ps EXCEPT ![u] = "p"]

\* `while current:` is true: current.set_params(p), and current._run is
\* entered. MaxSteps caps the iterations of a run over a cyclic graph.
OrchStep ==
    /\ AtLoopTop
    /\ current \in Units
    /\ Len(executed) < max_steps
    /\ params' = SetParams(params, current)
    /\ UNCHANGED <<flow_params, own_params, p>>
    /\ pc' = "prep"
    /\ EnterRun(current)
    /\ UNCHANGED graph
    /\ UNCHANGED wiring
    /\ UNCHANGED <<sub_start, stack, frame>>
    /\ UNCHANGED <<caller, current, last_action, retry, shared, printed, result, error>>
    /\ UNCHANGED construction
    /\ UNCHANGED flow_class
    /\ UNCHANGED calls
    /\ UNCHANGED threads
    /\ UNCHANGED caps
    /\ UNCHANGED context
    /\ UNCHANGED waiting
    /\ UNCHANGED inputs

\* current = self.get_next_node(current, last_action)
OrchRoute ==
    /\ pc = "route"
    /\ current' = GetNextNode(successors[current], last_action)
    /\ printed' = IF RouteWarns(successors[current], last_action)
                  THEN Append(printed, RouteWarning(successors[current], last_action))
                  ELSE printed
    /\ pc' = "orch"
    /\ UNCHANGED graph
    /\ UNCHANGED wiring
    /\ UNCHANGED parameters
    /\ UNCHANGED nesting
    /\ UNCHANGED <<caller, last_action, retry, exc, exec_res, shared, result, error>>
    /\ UNCHANGED history
    /\ UNCHANGED construction
    /\ UNCHANGED flow_class
    /\ UNCHANGED calls
    /\ UNCHANGED threads
    /\ UNCHANGED caps
    /\ UNCHANGED context
    /\ UNCHANGED waiting
    /\ UNCHANGED inputs

\* An _orch whose return always ends the run.
OutermostCall_Always == TRUE

\* The _orch in progress is the top-level flow's: no _orch waits for it.
OutermostCall == stack = << >>

\* `while current:` is false: _orch returns last_action, Flow.post returns it.
OrchReturn ==
    /\ pc = "orch"
    /\ current = NoNode
    /\ OutermostCall
    /\ result' = FlowPost(last_action)
    /\ pc' = "done"
    /\ UNCHANGED graph
    /\ UNCHANGED wiring
    /\ UNCHANGED parameters
    /\ UNCHANGED nesting
    /\ UNCHANGED <<caller, current, last_action, retry, exc, exec_res, shared,
                   printed, error>>
    /\ UNCHANGED history
    /\ UNCHANGED construction
    /\ UNCHANGED flow_class
    /\ UNCHANGED calls
    /\ UNCHANGED threads
    /\ UNCHANGED caps
    /\ UNCHANGED context
    /\ UNCHANGED waiting
    /\ UNCHANGED inputs

\* flow.run(SharedState()) once more, after a run has returned or raised:
\* the frames of the run before are gone and the shared context is a new
\* one; the flow, the units and what was printed are those the run left.
FlowRunAgain ==
    /\ pc \in {"done", "error"}
    /\ sleeps' = 0
    /\ UNCHANGED wait
    /\ prep_res' = NoInput
    /\ prep_calls' = 0
    /\ exec_given' = {}
    /\ fallback_given' = NoFallbackArgs
    /\ runs >= 1
    /\ runs < MaxRuns
    /\ runs' = runs + 1
    /\ shared' = << >>
    /\ result' = None
    /\ retry' = 0
    /\ exc' = NoError
    /\ exec_res' = Unset
    /\ executed' = << >>
    /\ exec_calls' = 0
    /\ fallback_calls' = 0
    /\ shared_at_entry' = << >>
    /\ stack' = << >>
    /\ frame' = 0
    /\ frame_of' = << >>
    /\ IF StartNodeMissing
       THEN /\ pc' = "error"
            /\ error' = StartNodeError
            /\ UNCHANGED <<caller, current, last_action, p>>
       ELSE /\ pc' = "orch"
            /\ caller' = "_orch"
            /\ current' = start_node
            /\ p' = CopyOf(flow_params)
            /\ last_action' = None
            /\ error' = NoError
    /\ UNCHANGED graph
    /\ UNCHANGED wiring
    /\ UNCHANGED <<flow_params, own_params, params, params_at_entry>>
    /\ UNCHANGED <<sub_start, printed>>
    /\ UNCHANGED construction
    /\ UNCHANGED flow_class
    /\ UNCHANGED threads
    /\ UNCHANGED caps
    /\ UNCHANGED context

\* ------------------------------------------------------- the sub-flow

\* `while current:` is true and current is the sub-flow: current.set_params(p),
\* then current._run: Flow.prep, and _orch up to its loop. The _orch that
\* called waits. MaxDepth caps the calls that wait (a flow wired into
\* itself recurses).
SubFlowEnter ==
    /\ pc = "orch"
    /\ current = SubFlow
    /\ Len(stack) < MaxDepth
    /\ params' = SetParams(params, SubFlow)
    /\ IF sub_start = NoNode
       THEN /\ pc' = "error"
            /\ error' = StartNodeError
            /\ UNCHANGED <<current, last_action, p, stack, frame>>
       ELSE /\ stack' = Append(stack, [current |-> current, last_action |-> last_action,
                                       p |-> p, frame |-> frame])
            /\ current' = sub_start
            /\ p' = CopyOf(p)
            /\ last_action' = None
            /\ frame' = Len(executed) + 1
            /\ pc' = "orch"
            /\ UNCHANGED error
    /\ UNCHANGED graph
    /\ UNCHANGED wiring
    /\ UNCHANGED <<caller, retry, exc, exec_res, shared, printed, result>>
    /\ UNCHANGED history
    /\ UNCHANGED <<flow_params, own_params, params_at_entry, sub_start, frame_of>>
    /\ UNCHANGED construction
    /\ UNCHANGED flow_class
    /\ UNCHANGED calls
    /\ UNCHANGED threads
    /\ UNCHANGED caps
    /\ UNCHANGED context
    /\ UNCHANGED waiting
    /\ UNCHANGED inputs

\* `while current:` is false in the sub-flow's _orch: it returns last_action,
\* the sub-flow's post (Flow.post, or its class's own) returns its label, and
\* the _orch that waited assigns it to its own last_action and goes on to
\* get_next_node.
SubFlowReturn ==
    /\ pc = "orch"
    /\ current = NoNode
    /\ ~OutermostCall
    /\ LET top == stack[Len(stack)]
       IN  /\ current' = top.current
           /\ last_action' = IF sub_post.overridden THEN sub_post.returns
                              ELSE FlowPost(last_action)
           /\ p' = top.p
           /\ frame' = top.frame
    /\ stack' = SubSeq(stack, 1, Len(stack) - 1)
    /\ pc' = "route"
    /\ UNCHANGED graph
    /\ UNCHANGED wiring
    /\ UNCHANGED <<caller, retry, exc, exec_res, shared, printed, result, error>>
    /\ UNCHANGED history
    /\ UNCHANGED <<flow_params, own_params, params, params_at_entry, sub_start, frame_of>>
    /\ UNCHANGED construction
    /\ UNCHANGED flow_class
    /\ UNCHANGED calls
    /\ UNCHANGED threads
    /\ UNCHANGED caps
    /\ UNCHANGED context
    /\ UNCHANGED waiting
    /\ UNCHANGED inputs

\* --------------------------------------------------- concurrent runs
\* Two flows A and B that start at the same unit are run in two threads.
\* A thread may be pre-empted between any two of the calls below; each run's
\* _orch has locals of its own (current, and p, a copy of its flow's params),
\* the units and the shared context are the same objects for both.

\* The frame of a step of a thread: what it reads but no thread step writes.
ThreadFrame ==
    /\ UNCHANGED graph
    /\ UNCHANGED wiring
    /\ UNCHANGED parameters
    /\ UNCHANGED nesting
    /\ UNCHANGED history
    /\ UNCHANGED construction
    /\ UNCHANGED flow_class
    /\ UNCHANGED calls
    /\ UNCHANGED <<caller, current, last_action, retry, exc, exec_res, result, error>>
    /\ UNCHANGED caps
    /\ UNCHANGED context
    /\ UNCHANGED waiting
    /\ UNCHANGED inputs

\* A set_params that leaves a unit the mapping an earlier run gave it.
SetParamsOf_FirstWins(h, u, t) == IF h[u] = "own" THEN [h EXCEPT ![u] = t] ELSE h

\* u.set_params(p) by the run t: `self.params = params`.  The unit has one
\* params attribute, whichever run calls.
SetParamsOf(h, u, t) == [h EXCEPT ![u] = t]

\* flow.run(shared) in thread t, up to the loop of its _orch.
ThreadRun(t) ==
    /\ pc \in {"build", "threads"}
    /\ t_pc[t] = "idle"
    /\ pc' = "threads"
    /\ IF StartNodeMissing
       THEN t_pc' = [t_pc EXCEPT ![t] = "error"] /\ UNCHANGED t_current
       ELSE /\ t_pc' = [t_pc EXCEPT ![t] = "orch"]
            /\ t_current' = [t_current EXCEPT ![t] = start_node]
    /\ UNCHANGED <<holds, shared, printed>>
    /\ ThreadFrame

\* `while current:` is true in thread t: current.set_params(p).  MaxSteps
\* caps the units the two runs finish between them.
ThreadSetParams(t) ==
    /\ t_pc[t] = "orch"
    /\ t_current[t] # NoNode
    /\ Len(shared) < MaxSteps
    /\ holds' = SetParamsOf(holds, t_current[t], t)
    /\ t_pc' = [t_pc EXCEPT ![t] = "prep"]
    /\ UNCHANGED <<pc, t_current, shared, printed>>
    /\ ThreadFrame

\* `while current:` is false in thread t: _orch returns, run returns.
ThreadReturn(t) ==
    /\ t_pc[t] = "orch"
    /\ t_current[t] = NoNode
    /\ t_pc' = [t_pc EXCEPT ![t] = "done"]
    /\ UNCHANGED <<pc, t_current, holds, shared, printed>>
    /\ ThreadFrame

\* current._run in thread t: prep, which reads self.params as it now is.
ThreadPrep(t) ==
    /\ t_pc[t] = "prep"
    /\ t_pc' = [t_pc EXCEPT ![t] = "exec"]
    /\ UNCHANGED <<pc, t_current, holds, shared, printed>>
    /\ ThreadFrame

\* _exec in thread t: exec returns, or raises on the last attempt the unit
\* has and Node's exec_fallback raises it again: the exception leaves run.
ThreadExec(t) ==
    /\ t_pc[t] = "exec"
    /\ \E ok \in BOOLEAN :
          IF ok
          THEN t_pc' = [t_pc EXCEPT ![t] = "post"]
          ELSE /\ IsLastRetry(t_current[t], 0)
               /\ ExecFallbackRaises(t_current[t])
               /\ t_pc' = [t_pc EXCEPT ![t] = "error"]
    /\ UNCHANGED <<pc, t_current, holds, shared, printed>>
    /\ ThreadFrame

\* post in thread t writes the context and returns "default"; _run returns
\* and get_next_node chooses the next unit of the run.
ThreadPost(t) ==
    /\ t_pc[t] = "post"
    /\ shared' = Append(shared, t_current[t])
    /\ t_current' = [t_current EXCEPT ![t] = GetNextNode(successors[t_current[t]], "default")]
    /\ printed' = IF RouteWarns(successors[t_current[t]], "default")
                  THEN Append(printed, RouteWarning(successors[t_current[t]], "default"))
                  ELSE printed
    /\ t_pc' = [t_pc EXCEPT ![t] = "orch"]
    /\ UNCHANGED <<pc, holds>>
    /\ ThreadFrame

\* ------------------------------------------------- writes to self.params

\* self.params[key] = WrittenValue, in a step of the unit that is running:
\* the dict that self.params is changes in place.
ParamsWrite(key) ==
    /\ pc \in {"prep", "exec", "post"}
    /\ current \in Units
    /\ ParamGet(ParamsOf(current), key) # WrittenValue
    /\ IF params[current] = "p"
       THEN /\ p' = DictSet(p, key, WrittenValue)
            /\ UNCHANGED own_params
       ELSE /\ own_params' = [own_params EXCEPT ![current] = DictSet(@, key, WrittenValue)]
            /\ UNCHANGED p
    /\ UNCHANGED graph
    /\ UNCHANGED wiring
    /\ UNCHANGED <<pc, caller, current, last_action, retry, exc, exec_res, shared,
                   printed, result, error>>
    /\ UNCHANGED history
    /\ UNCHANGED <<flow_params, params, params_at_entry>>
    /\ UNCHANGED nesting
    /\ UNCHANGED construction
    /\ UNCHANGED flow_class
    /\ UNCHANGED calls
    /\ UNCHANGED threads
    /\ UNCHANGED caps
    /\ UNCHANGED context
    /\ UNCHANGED waiting
    /\ UNCHANGED inputs

\* ------------------------------------------------- the shared context
\* A SharedState() is written with set and update, its to_dict is called,
\* and the dict to_dict returned is written by its holder.

StateKeys == {"a", "b"}
StateValues == {"v0", "v1"}
StateDicts == UNION {[keys -> StateValues] : keys \in SUBSET StateKeys}

\* d.update(m): the items of m, and those of d under the other keys.
DictUpdate(d, m) == [k \in DOMAIN d \cup DOMAIN m |-> IF k \in DOMAIN m THEN m[k] ELSE d[k]]

\* A to_dict that returns the context's own dict.
ToDictReturns_Data == "data"

\* to_dict: `return self.data.copy()`, a new dict with the items of data.
ToDictReturns == "new"

\* The items of the dict to_dict returned last, as they now are.
SnapshotItems == IF snapshot_ref = "data" THEN data ELSE snapshot

\* What the writes below leave alone.
ContextFrame ==
    /\ UNCHANGED graph
    /\ UNCHANGED wiring
    /\ UNCHANGED parameters
    /\ UNCHANGED nesting
    /\ UNCHANGED history
    /\ UNCHANGED construction
    /\ UNCHANGED flow_class
    /\ UNCHANGED calls
    /\ UNCHANGED threads
    /\ UNCHANGED caps
    /\ UNCHANGED <<pc, caller, current, last_action, retry, exc, exec_res, shared,
                   printed, result, error>>
    /\ UNCHANGED waiting
    /\ UNCHANGED inputs

\* state.set(key, value), state[key] = value: `self.data[key] = value`.
StateSet(key, value) ==
    /\ ParamGet(data, key) # value
    /\ data' = DictSet(data, key, value)
    /\ UNCHANGED <<snapshot_ref, snapshot, data_at_call>>
    /\ ContextFrame

\* state.update(m): `self.data.update(data)`.
StateUpdate(m) ==
    /\ DictUpdate(data, m) # data
    /\ data' = DictUpdate(data, m)
    /\ UNCHANGED <<snapshot_ref, snapshot, data_at_call>>
    /\ ContextFrame

\* d = state.to_dict()
ToDict ==
    /\ snapshot_ref' = ToDictReturns
    /\ snapshot' = IF ToDictReturns = "new" THEN CopyOf(data) ELSE EmptyDict
    /\ data_at_call' = data
    /\ UNCHANGED data
    /\ ContextFrame

\* d[key] = value, on the dict d that to_dict returned.
SnapshotSet(key, value) ==
    /\ snapshot_ref # "none"
    /\ ParamGet(SnapshotItems, key) # value
    /\ IF snapshot_ref = "data"
       THEN data' = DictSet(data, key, value) /\ UNCHANGED snapshot
       ELSE snapshot' = DictSet(snapshot, key, value) /\ UNCHANGED data
    /\ UNCHANGED <<snapshot_ref, data_at_call>>
    /\ ContextFrame

\* ------------------------------------------------- the research agent

\* create_research_agent's units, in the order it creates them.
Decide == 1
Search == 2
Answer == 3

\* LLMNode.__init__'s default max_retries, which DecisionNode and
\* LLMCallNode inherit.
LLMMaxRetries == 3

\* decide - "search" >> search; decide - "answer" >> answer;
\* search - "decide" >> decide.
ResearchGraph ==
    [u \in Nodes |->
        IF u = Decide THEN DictSet(DictSet(EmptyDict, "search", Search), "answer", Answer)
        ELSE IF u = Search THEN DictSet(EmptyDict, "decide", Decide)
        ELSE EmptyDict]

\* The flow create_research_agent returns: Flow(start_node=decide).  A run
\* over it is explored up to MaxVisits visits of search.
ResearchAgent ==
    /\ successors = ResearchGraph
    /\ start_node = Decide
    /\ max_retries = [u \in Units |-> IF u \in {Decide, Answer} THEN LLMMaxRetries
                                                               ELSE DefaultMaxRetries]
    /\ overrides = [u \in Units |-> FALSE]
    /\ next_calls = 3
    /\ registered = [u \in Nodes |-> [k \in DOMAIN ResearchGraph[u] |-> <<ResearchGraph[u][k]>>]]
    /\ max_steps = 2 * MaxVisits + 2
    /\ wait = [u \in Units |-> DefaultWait]

InitResearch == ResearchAgent /\ NotRun /\ NoParams /\ sub_post = InheritedPost

\* What post returns: DecisionNode.post returns exec_res, one of its actions;
\* SearchNode.post returns "decide"; AnswerNode.post returns "done".
PostLabels(u) ==
    IF u = Decide THEN {"search", "answer"}
    ELSE IF u = Search THEN {"decide"}
    ELSE IF u = Answer THEN {"done"}
    ELSE {"default"}

\* ------------------------------------------------------ specifications

Lifecycle ==
    \/ Prep
    \/ NodeExec
    \/ ExecFallback
    \/ \E action \in ActionLabels : Post(action)

Build ==
    \/ \E src \in Units, node \in Units, action \in EdgeLabels : NodeNext(src, node, action)
    \/ \E node \in Units : FlowStart(node)

Orchestrate ==
    \/ FlowRun
    \/ OrchStep
    \/ OrchRoute
    \/ OrchReturn

\* A graph is wired, then the flow is run once.
Next == Build \/ Orchestrate \/ Lifecycle

Spec == Init /\ [][Next]_vars

\* The same, for units whose class overrides exec_fallback.
SpecFallback == InitOverriding /\ [][Next]_vars

\* A freshly constructed unit is invoked directly, once.
NextNode == (\E u \in Units : NodeRun(u)) \/ Lifecycle

SpecNode == InitNode /\ [][NextNode]_vars

\* One retrying unit, built with or without a delay, is invoked directly.
SpecWait == InitWait /\ [][NextNode]_vars

\* Units are wired, then one of them is invoked directly, once.
Wire == \E src \in Units, node \in Units, action \in EdgeLabels : NodeNext(src, node, action)

NextDirect ==
    \/ Wire
    \/ \E u \in Mentionable(Mentioned) : NodeRun(u)
    \/ Lifecycle

SpecDirect == InitNode /\ [][NextDirect]_vars

\* Units with parameters set are chained with >>, then the flow is run once;
\* a unit's step may write to self.params, and its post returns "default".
Connect == \E src \in Units, node \in Units : NodeNext(src, node, "default")

NextParams ==
    \/ Connect
    \/ \E node \in Units : FlowStart(node)
    \/ Orchestrate
    \/ Prep
    \/ NodeExec
    \/ ExecFallback
    \/ Post("default")
    \/ \E key \in ParamKeys : ParamsWrite(key)

SpecParams == InitParams /\ [][NextParams]_vars

\* Units and the sub-flow are chained with >>, both flows are given their
\* start, then the top-level flow is run once.
NextNested ==
    \/ \E src \in Nodes, node \in Nodes : NodeNext(src, node, "default")
    \/ \E node \in Nodes : FlowStart(node)
    \/ \E node \in Units : SubStart(node)
    \/ Orchestrate
    \/ SubFlowEnter
    \/ SubFlowReturn
    \/ Lifecycle

SpecNested == Init /\ [][NextNested]_vars

\* A flow with a sub-flow, over units, a sub-flow and a top-level flow that
\* were given parameter dicts before the run.  The units are of one class
\* and alike, so the edges leave unit 1, unit 2 or the sub-flow, the
\* top-level flow starts at unit 1 or at the sub-flow, and the sub-flow at
\* unit 1 or 2; a unit writes the key "k" of its self.params in place.
InitNestedParams ==
    Constructed({DefaultMaxRetries}, {FALSE}) /\ GivenParams /\ sub_post = InheritedPost

NextNestedParams ==
    \/ \E src \in {1, 2, SubFlow} : \E node \in Nodes \ {src} : NodeNext(src, node, "default")
    \/ \E node \in {1, SubFlow} : FlowStart(node)
    \/ \E node \in {1, 2} : SubStart(node)
    \/ Orchestrate
    \/ SubFlowEnter
    \/ SubFlowReturn
    \/ Prep
    \/ NodeExec
    \/ ExecFallback
    \/ Post("default")
    \/ ParamsWrite("k")

SpecNestedParams == InitNestedParams /\ [][NextNestedParams]_vars

\* A sub-flow of either class, with labelled edges out of it.
InitSubPost ==
    /\ Constructed({DefaultMaxRetries}, {FALSE})
    /\ NoParams
    /\ sub_post \in {InheritedPost} \cup {OverriddenPost(action) : action \in {None, "x"}}

NextSubPost ==
    \/ \E src \in Units, node \in Nodes : NodeNext(src, node, "default")
    \/ \E node \in Units, action \in {"default", "x"} : NodeNext(SubFlow, node, action)
    \/ \E node \in Nodes : FlowStart(node)
    \/ \E node \in Units : SubStart(node)
    \/ Orchestrate
    \/ SubFlowEnter
    \/ SubFlowReturn
    \/ Prep
    \/ NodeExec
    \/ ExecFallback
    \/ \E action \in {None, "default", "x"} : Post(action)

SpecSubPost == InitSubPost /\ [][NextSubPost]_vars

\* A branching graph is wired, and the flow is run up to MaxRuns times over it.
NextRerun ==
    \/ \E src \in Units, node \in Units, action \in {"x", "y"} : NodeNext(src, node, action)
    \/ \E node \in Units : FlowStart(node)
    \/ Orchestrate
    \/ FlowRunAgain
    \/ Prep
    \/ NodeExec
    \/ ExecFallback
    \/ \E action \in {"x", "z"} : Post(action)

SpecRerun == Init /\ [][NextRerun]_vars

\* A graph is wired, then the two runs go on in any interleaving.
NextThreads ==
    \/ Connect
    \/ \E node \in Units : FlowStart(node)
    \/ \E t \in Runs : ThreadRun(t)
    \/ \E t \in Runs : ThreadSetParams(t)
    \/ \E t \in Runs : ThreadReturn(t)
    \/ \E t \in Runs : ThreadPrep(t)
    \/ \E t \in Runs : ThreadExec(t)
    \/ \E t \in Runs : ThreadPost(t)

SpecThreads == Init /\ [][NextThreads]_vars

\* The research agent is run once.
NextResearch ==
    \/ Orchestrate
    \/ Prep
    \/ NodeExec
    \/ ExecFallback
    \/ \E action \in PostLabels(current) : Post(action)

SpecResearch == InitResearch /\ [][NextResearch]_vars

\* Any sequence of writes and to_dict calls on one context.
NextContext ==
    \/ \E key \in StateKeys, value \in StateValues : StateSet(key, value)
    \/ \E m \in StateDicts : StateUpdate(m)
    \/ ToDict
    \/ \E key \in StateKeys, value \in StateValues : SnapshotSet(key, value)

SpecContext == Init /\ [][NextContext]_vars

\* Retrying units whose prep or post may raise are chained with >>, then
\* the flow is run once.
NextRaises ==
    \/ Connect
    \/ \E node \in Units : FlowStart(node)
    \/ Orchestrate
    \/ Prep
    \/ PrepRaises
    \/ NodeExec
    \/ ExecFallback
    \/ Post("default")
    \/ PostRaises

SpecRaises == InitNode /\ [][NextRaises]_vars

\* A graph is declared with the operators: a >> b, a - "x", (a - "x") >> b.
NextOperators ==
    \/ \E src \in Units, other \in Units : Rshift(src, other)
    \/ \E src \in Units, action \in EdgeLabels : Sub(src, action)
    \/ \E target \in Units : TransitionRshift(target)

SpecOperators == Init /\ [][NextOperators]_vars

\* The interpreter goes on with a call it has begun: a run in progress takes
\* its next step.
LiveSpec == Spec /\ WF_vars(Orchestrate \/ Lifecycle)

\* ----------------------------------------------------- the routing step

\* The unit whose _run was entered last.
LastUnit == executed[Len(executed)]

\* _orch has routed away from LastUnit: last_action is the label LastUnit's
\* post returned, and current is what get_next_node answered.
Routed == caller = "_orch" /\ pc \in {"orch", "done"} /\ executed # << >>

\* The edge mapping get_next_node was given.
RoutedEdges == successors[LastUnit]

\* get_next_node has printed its warning in this run.
RouteWarned == \E i \in 1..Len(printed) : printed[i].kind = "flow_ends"

\* C1: whenever the unit has an edge whose label equals the action label its
\* post returned, the next unit is that edge's target, whatever other edges
\* the unit has.
C1_ExactMatchWins ==
    (Routed /\ last_action \in DOMAIN RoutedEdges)
        => current = RoutedEdges[last_action]

\* C2: a unit with exactly one outgoing edge is followed by that edge's
\* target for every action label, and no routing warning is printed.
C2_SingleEdgeAlwaysTaken ==
    (Routed /\ Cardinality(DOMAIN RoutedEdges) = 1)
        => /\ \A k \in DOMAIN RoutedEdges : current = RoutedEdges[k]
           /\ ~RouteWarned

C2_Witness ==
    /\ Routed
    /\ DOMAIN RoutedEdges = {"x"}
    /\ last_action = "z"
    /\ current = RoutedEdges["x"]
    /\ current # LastUnit

\* C3: with more than one edge, none labeled with the captured action label
\* and one labeled "default", the flow continues with the target of the
\* "default" edge and prints no routing warning.
C3_DefaultFallback ==
    (/\ Routed
     /\ Cardinality(DOMAIN RoutedEdges) > 1
     /\ last_action \notin DOMAIN RoutedEdges
     /\ "default" \in DOMAIN RoutedEdges)
        => current = RoutedEdges["default"] /\ ~RouteWarned

C3_Witness ==
    /\ Routed
    /\ DOMAIN RoutedEdges = {"default", "x"}
    /\ last_action = "z"
    /\ RoutedEdges["default"] # RoutedEdges["x"]
    /\ current = RoutedEdges["default"]

\* The routing rule as the specification words it: the label an exact match
\* looks up (null taken as "default"), and no rule (a)-(c) selecting an edge.
CapturedLabel(action) == IF action = None THEN "default" ELSE action

NoRuleSelects(succ, action) ==
    /\ DOMAIN succ # {}
    /\ CapturedLabel(action) \notin DOMAIN succ
    /\ Cardinality(DOMAIN succ) # 1
    /\ "default" \notin DOMAIN succ

\* C4: when the unit has edges and none is selected by the exact-match,
\* single-successor or default rules, the flow prints the routing warning
\* (naming the label and the available labels), raises nothing, runs no
\* further unit and returns the unmatched label itself.
C4_NoMatchEndsFlow ==
    (Routed /\ NoRuleSelects(RoutedEdges, last_action))
        => /\ current = NoNode
           /\ error = NoError
           /\ printed # << >>
           /\ printed[Len(printed)] = RouteWarning(RoutedEdges, last_action)
           /\ Len(shared) = Len(executed)
           /\ pc = "done" => result = last_action

C4_Witness ==
    /\ Routed
    /\ pc = "done"
    /\ DOMAIN RoutedEdges = {"x", "y"}
    /\ last_action = "z"
    /\ result = "z"
    /\ RouteWarned

\* C5: a unit without outgoing edges ends the flow, and no warning is
\* printed, for every action label it returns.
C5_NoEdgesEndsSilently ==
    (Routed /\ DOMAIN RoutedEdges = {})
        => current = NoNode /\ ~RouteWarned /\ error = NoError

C5_Witness ==
    /\ Routed
    /\ pc = "done"
    /\ Len(executed) = 2
    /\ DOMAIN RoutedEdges = {}
    /\ last_action = None
    /\ result = None

\* C6: a null action label is routed as the label "default" is: to the
\* target of the unit's "default" edge when it has one, whatever other edges
\* it has, and otherwise where "default" would be routed.
C6_NullIsDefault ==
    (Routed /\ last_action = None)
        => /\ "default" \in DOMAIN RoutedEdges => current = RoutedEdges["default"]
           /\ current = GetNextNode(RoutedEdges, "default")

C6_Witness ==
    /\ Routed
    /\ last_action = None
    /\ DOMAIN RoutedEdges = {"default", "x"}
    /\ RoutedEdges["default"] # RoutedEdges["x"]
    /\ current = RoutedEdges["default"]

\* -------------------------------------------------------- termination

\* The units u has an edge to.
Targets(u) == {successors[u][k] : k \in DOMAIN successors[u]}

\* The units that can be reached from those of S along edges, S included.
RECURSIVE ReachableFrom(_)
ReachableFrom(S) ==
    LET T == S \cup UNION {Targets(u) : u \in S}
    IN  IF T = S THEN S ELSE ReachableFrom(T)

\* No unit reachable from the start unit lies on a cycle.
Acyclic ==
    \A u \in ReachableFrom({start_node} \ {NoNode}) : u \notin ReachableFrom(Targets(u))

\* No unit was run twice.
NoRepeat == \A i, j \in 1..Len(executed) : executed[i] = executed[j] => i = j

FlowEnded == pc \in {"done", "error"}

\* C7: over a graph without cycles a flow run ends: the loop comes to a unit
\* for which routing yields no successor (or a unit's failure leaves the
\* run), and no unit is run more than once.
C7_AcyclicRunTerminates ==
    /\ [](caller = "_orch" /\ Acyclic => NoRepeat)
    /\ [](caller = "_orch" /\ Acyclic /\ pc = "done" => current = NoNode)
    /\ (caller = "_orch" /\ Acyclic) ~> FlowEnded

C7_Witness ==
    /\ caller = "_orch"
    /\ Acyclic
    /\ pc = "done"
    /\ executed = <<1, 2, 3>>
    /\ Cardinality(DOMAIN successors[1]) = 1

\* ------------------------------------------------------------- retries

\* A unit built with max_retries >= 1 is being invoked.
Invoked == current \in Units /\ pc # "build" /\ max_retries[current] >= 1

\* C8: exec_fallback is called only after exec has failed max_retries times
\* (never earlier), it is called once, and a unit all of whose attempts
\* failed has called exec exactly max_retries times.
C8_FallbackAfterAllAttempts ==
    Invoked =>
        /\ pc = "exec" => fallback_calls = 0 /\ exec_calls = retry
        /\ pc = "fallback" => /\ exec_calls = max_retries[current]
                              /\ fallback_calls = 0
        /\ fallback_calls > 0 => /\ fallback_calls = 1
                                 /\ exec_calls = max_retries[current]
        /\ (pc = "post" /\ exec_res.kind # "ok") => fallback_calls = 1

C8_Witness ==
    /\ Invoked
    /\ max_retries[current] = MaxRetries
    /\ pc = "error"
    /\ exec_calls = MaxRetries
    /\ fallback_calls = 1

\* C9: when exec fails k-1 times and succeeds on its k-th call (k <=
\* max_retries), post is given the k-th call's value, exec was called exactly
\* k times and exec_fallback was not called.
C9_SuccessOnKthAttempt ==
    (Invoked /\ pc = "post" /\ fallback_calls = 0) =>
        /\ exec_res = ExecOk(current, retry + 1)
        /\ exec_calls = retry + 1
        /\ retry + 1 <= max_retries[current]

C9_Witness ==
    /\ Invoked
    /\ pc = "post"
    /\ max_retries[current] = MaxRetries
    /\ exec_calls = MaxRetries
    /\ exec_res = ExecOk(current, MaxRetries)
    /\ fallback_calls = 0

\* C10: with Node's own exec_fallback, a unit all of whose attempts failed
\* fails as a whole with the last attempt's exception: post is not run for
\* that invocation, the shared context is as it was when the invocation
\* began, and nothing is returned.
C10_DefaultFallbackPropagates ==
    (Invoked /\ ~overrides[current]) =>
        /\ fallback_calls > 0 => /\ pc = "error"
                                 /\ error = ExecError(current, max_retries[current])
                                 /\ shared = shared_at_entry
                                 /\ Len(shared) < Len(executed)
                                 /\ result = None
        /\ pc \in {"post", "done"} => error = NoError
        /\ pc = "post" => exec_res.kind = "ok"

C10_Witness ==
    /\ Invoked
    /\ ~overrides[current]
    /\ max_retries[current] = MaxRetries
    /\ pc = "error"
    /\ error = ExecError(current, MaxRetries)
    /\ exec_calls = MaxRetries

\* ------------------------------------------ fallback, start node, paths

\* C11: when the unit's class overrides exec_fallback to return a substitute,
\* the exhaustion of the attempts is no error: post is given the substitute,
\* returns its label, and in a flow the label is routed on.
C11_OverriddenFallbackContinues ==
    /\ []((pc # "build" /\ current \in Units /\ overrides[current])
            => /\ error = NoError
               /\ fallback_calls > 0 => pc = "post" /\ exec_res = ExecSubstitute(current))
    /\ [][(pc = "post" /\ caller = "_orch" /\ exec_res.kind = "substitute")
            => /\ pc' = "route"
               /\ error' = NoError
               /\ last_action' \in ActionLabels
               /\ shared' = Append(shared, current)]_vars
    /\ [][(pc = "route" /\ error = NoError)
            => /\ pc' = "orch"
               /\ error' = NoError
               /\ current' = GetNextNode(successors[current], last_action)]_vars

C11_Witness ==
    /\ caller = "_orch"
    /\ pc = "post"
    /\ exec_res = ExecSubstitute(current)
    /\ fallback_calls = 1
    /\ DOMAIN successors[current] # {}
    /\ Len(executed) = 2

\* C13: running a flow that has no start node fails at once with _orch's
\* ValueError: no unit's step is run, the shared context is unchanged,
\* nothing is returned and nothing runs afterwards.
C13_NoStartNodeFailsFast ==
    /\ (pc # "build" /\ caller # "run" /\ start_node = NoNode)
         => pc = "error" /\ error = StartNodeError
    /\ error = StartNodeError
         => /\ start_node = NoNode
            /\ pc = "error"
            /\ executed = << >>
            /\ shared = << >>
            /\ exec_calls = 0
            /\ result = None
            /\ ~ENABLED (Orchestrate \/ Lifecycle)

C13_Witness ==
    /\ error = StartNodeError
    /\ pc = "error"
    /\ next_calls = MaxNextCalls
    /\ \E u \in Units : DOMAIN successors[u] # {}

\* The units from u on along edges labeled "default", when every one of them
\* has that edge and no other, up to one that has no edge: the linear chain
\* that begins at u. << >> when the graph from u on is not such a chain.
RECURSIVE ChainFrom(_, _)
ChainFrom(u, seen) ==
    IF u \notin Units \/ u \in seen THEN << >>
    ELSE IF DOMAIN successors[u] = {} THEN <<u>>
    ELSE IF DOMAIN successors[u] # {"default"} THEN << >>
    ELSE LET rest == ChainFrom(successors[u]["default"], seen \cup {u})
         IN  IF rest = << >> THEN << >> ELSE <<u>> \o rest

\* The linear chain of default edges the flow starts at, if its graph is one.
DefaultChain == ChainFrom(start_node, {})

IsPrefix(a, b) == Len(a) <= Len(b) /\ \A i \in 1..Len(a) : a[i] = b[i]

\* C14: over a linear chain of default edges a flow runs the units of the
\* chain in chain order, each once, whatever labels they return; when the
\* run has returned every unit has run and written the shared context in
\* that order, and the result is the label the last unit returned.
C14_LinearChainRunsInOrder ==
    (caller = "_orch" /\ DefaultChain # << >>)
        => LET c == DefaultChain
           IN  /\ IsPrefix(executed, c)
               /\ IsPrefix(shared, executed)
               /\ pc = "orch" /\ Len(executed) < Len(c) => current = c[Len(executed) + 1]
               /\ pc = "done" => /\ executed = c
                                 /\ shared = c
                                 /\ result = last_action

C14_Witness ==
    /\ caller = "_orch"
    /\ DefaultChain = <<1, 2, 3>>
    /\ pc = "done"
    /\ executed = <<1, 2, 3>>
    /\ shared = <<1, 2, 3>>
    /\ result = "z"

\* C15: a branch unit with two or more edges whose post returns the label of
\* one of them is followed by the target of exactly that edge.
C15_BranchTakesReturnedLabel ==
    (/\ Routed
     /\ Cardinality(DOMAIN RoutedEdges) >= 2
     /\ last_action \in DOMAIN RoutedEdges)
        => /\ current = RoutedEdges[last_action]
           /\ ~RouteWarned

\* C18: a flow run that returns returns the label that the post of the last
\* unit it ran returned (None when that was None).
C18_ResultIsLastLabel ==
    (caller = "_orch" /\ pc = "done")
        => /\ result = last_action
           /\ error = NoError
           /\ current = NoNode
           /\ Len(shared) = Len(executed)
           /\ shared[Len(shared)] = LastUnit

C18_Witness ==
    /\ caller = "_orch"
    /\ pc = "done"
    /\ Len(executed) = 2
    /\ executed[1] # executed[2]
    /\ result = None

\* ------------------------------------------------- overwriting an edge

\* The target the latest next() call of unit u gave for the label `action`.
LatestTarget(u, action) == registered[u][action][Len(registered[u][action])]

\* The targets earlier next() calls of unit u gave for the label `action`.
ReplacedTargets(u, action) ==
    {registered[u][action][i] : i \in 1..(Len(registered[u][action]) - 1)}

\* The number of edges of the nodes 1..n.
RECURSIVE Edges(_)
Edges(n) == IF n = 0 THEN 0 ELSE Cardinality(DOMAIN successors[n]) + Edges(n - 1)

\* The number of next() calls that found their label already registered:
\* every other call added an edge.
Overwrites == next_calls - Edges(SubFlow)

OverwriteWarnings == {i \in 1..Len(printed) : printed[i].kind = "overwrite"}

\* C12: next() with a label the unit already has replaces the target and
\* prints a warning without failing: the unit has one edge for the label, to
\* the target of the latest call, and a flow that looks the label up goes on
\* to that target and to no target the call replaced.
C12_OverwriteKeepsLatest ==
    /\ \A u \in Units :
          /\ DOMAIN successors[u] = DOMAIN registered[u]
          /\ \A k \in DOMAIN successors[u] : successors[u][k] = LatestTarget(u, k)
    /\ Cardinality(OverwriteWarnings) = Overwrites
    /\ \A i \in OverwriteWarnings :
          \E u \in Units : /\ printed[i].action \in DOMAIN registered[u]
                           /\ Len(registered[u][printed[i].action]) > 1
    /\ pc = "build" => error = NoError
    /\ Routed =>
          LET label == ActionOrDefault(last_action)
          IN  label \in DOMAIN registered[LastUnit]
                => /\ current = LatestTarget(LastUnit, label)
                   /\ \A old \in ReplacedTargets(LastUnit, label) :
                         old # LatestTarget(LastUnit, label) => current # old

C12_Witness ==
    /\ Routed
    /\ last_action = "x"
    /\ "x" \in DOMAIN registered[LastUnit]
    /\ Len(registered[LastUnit]["x"]) = 2
    /\ registered[LastUnit]["x"][1] # registered[LastUnit]["x"][2]
    /\ current = registered[LastUnit]["x"][2]
    /\ \E i \in 1..Len(printed) : printed[i] = OverwriteWarning("x")

\* ------------------------------------------------- direct invocation

MisuseWarnings == {i \in 1..Len(printed) : printed[i] = MisuseWarning}

\* C17: unit.run(shared) enters the unit's own _run and no other unit's; when
\* it returns, the unit's post has written the context once and run returns
\* a label post may return; the misuse warning is printed, once, exactly
\* when the unit has an outgoing edge, and the run is the same with it.
C17_DirectRunStopsAtUnit ==
    caller = "run"
        => /\ executed = <<current>>
           /\ current \in Units
           /\ Cardinality(MisuseWarnings) = IF DOMAIN successors[current] # {} THEN 1 ELSE 0
           /\ pc \in {"prep", "exec", "fallback", "post"} => shared = << >> /\ result = None
           /\ pc = "done" => /\ shared = <<current>>
                             /\ result \in ActionLabels
                             /\ error = NoError
           /\ pc = "error" => shared = << >> /\ result = None /\ error.kind = "Exception"
           /\ pc # "build" /\ pc # "route" /\ pc # "orch"

C17_Witness ==
    /\ caller = "run"
    /\ pc = "done"
    /\ "default" \in DOMAIN successors[current]
    /\ successors[current]["default"] # current
    /\ MisuseWarnings # {}
    /\ executed = <<current>>
    /\ shared = <<current>>
    /\ result = "default"

\* ------------------------------------------------ parameter propagation

\* A unit's _run, called by _orch, is in progress.
InLifecycle == caller = "_orch" /\ current \in Units /\ pc \in {"prep", "exec", "fallback", "post"}

C20_ParamsCopiedPerUnit ==
    /\ InLifecycle => params_at_entry = flow_params
    /\ \A key \in DOMAIN flow_params : flow_params[key] # WrittenValue

\* ------------------------------------------------------------ sub-flows

\* The top-level flow is unit1 >> sub-flow >> unit2, and unit2 has no edge.
AroundSubFlow(unit1, unit2) ==
    /\ unit1 # unit2
    /\ start_node = unit1
    /\ DOMAIN successors[unit1] = {"default"}
    /\ successors[unit1]["default"] = SubFlow
    /\ DOMAIN successors[SubFlow] = {"default"}
    /\ successors[SubFlow]["default"] = unit2
    /\ DOMAIN successors[unit2] = {}

MidLifecycle ==
    \/ pc \in {"prep", "exec", "fallback", "post"}
    \/ pc = "error" /\ error.kind = "Exception"

StepOrder ==
    /\ pc = "prep" => pc' = "exec"
    /\ pc = "exec" => pc' \in {"exec", "fallback", "post"}
    /\ pc = "fallback" => pc' \in {"post", "error"}
    /\ pc = "post" => pc' \in {"route", "done"} /\ shared' = Append(shared, current)
    /\ pc \in {"prep", "exec", "fallback"} => shared' = shared
    /\ pc \in {"prep", "exec", "fallback", "post"}
          => current' = current /\ executed' = executed
    /\ executed' # executed
          => /\ pc \in {"orch", "build"}
             /\ pc' = "prep"
             /\ current' \in Units
             /\ executed' = Append(executed, current')
             /\ shared = executed

C21_LifecyclesNeverOverlap ==
    /\ [](/\ IsPrefix(shared, executed)
          /\ Len(executed) - Len(shared) \in {0, 1}
          /\ (Len(executed) - Len(shared) = 1) <=> MidLifecycle)
    /\ [][StepOrder]_vars

C21_Witness ==
    /\ stack # << >>
    /\ pc = "post"
    /\ Len(executed) = 3
    /\ shared = SubSeq(executed, 1, 2)
    /\ frame_of[2] = 0
    /\ frame_of[3] # 0

\* C22: each construction operator is one next call that yields its target.
\* src >> other acts as src.next(other, "default") and its value is other;
\* t >> target, for the transition t made by src - label, acts as
\* src.next(target, label) and its value is target; src - label alone makes
\* the pending pair and leaves every edge mapping, and what was printed, as
\* they were.
OneNextCall(src, action, node) ==
    /\ Registers(src, node, action)
    /\ successors'[src][action] = node
    /\ \A u \in Nodes \ {src} : successors'[u] = successors[u]
    /\ next_calls' = next_calls + 1

OperatorsAsNext ==
    /\ \A src, other \in Units :
          Rshift(src, other)
              => OneNextCall(src, "default", other) /\ yielded' = UnitValue(other)
    /\ \A target \in Units :
          TransitionRshift(target)
              => /\ OneNextCall(transition.src, transition.action, target)
                 /\ yielded' = UnitValue(target)
                 /\ transition' = transition
    /\ \A src \in Units, label \in EdgeLabels :
          Sub(src, label)
              => /\ transition' = [src |-> src, action |-> label]
                 /\ yielded'.kind = "transition"
                 /\ UNCHANGED <<successors, registered, next_calls, printed>>

C22_OperatorsAreNextCalls == [][OperatorsAsNext]_vars

C22_Witness ==
    /\ transition = [src |-> 1, action |-> "x"]
    /\ successors[1] = DictSet(EmptyDict, "x", 2)
    /\ successors[2] = DictSet(EmptyDict, "default", 3)
    /\ yielded = UnitValue(3)
    /\ next_calls = 2

\* C23: a sub-flow passes its inner result through.  When the sub-flow's
\* _orch returns, the label the outer _orch receives is the inner last_action
\* as it is (None included) if the sub-flow's post is Flow.post, and the value
\* of the sub-flow's own post if its class overrides it; the outer
\* get_next_node is then given that label and the sub-flow's edge mapping.
SubFlowReturning == pc = "orch" /\ current = NoNode /\ stack # << >>

SubFlowResultRouted ==
    /\ SubFlowReturning
          => /\ pc' = "route"
             /\ current' = SubFlow
             /\ last_action' = IF sub_post.overridden THEN sub_post.returns ELSE last_action
    /\ (pc = "route" /\ current = SubFlow)
          => /\ current' = GetNextNode(successors[SubFlow], last_action)
             /\ last_action' = last_action

C23_SubFlowPassesResult == [][SubFlowResultRouted]_vars

C23_Witness ==
    /\ ~sub_post.overridden
    /\ successors[SubFlow] = DictSet(DictSet(EmptyDict, "default", 2), "x", 3)
    /\ pc = "prep"
    /\ last_action = "x"
    /\ executed = <<1, 3>>
    /\ start_node = SubFlow
    /\ sub_start = 1
    /\ stack = << >>

C23_WitnessOverridden ==
    /\ sub_post = OverriddenPost("x")
    /\ successors[SubFlow] = DictSet(DictSet(EmptyDict, "default", 2), "x", 3)
    /\ pc = "prep"
    /\ last_action = "x"
    /\ shared = <<1>>
    /\ executed = <<1, 3>>
    /\ start_node = SubFlow
    /\ stack = << >>

\* C24: a fatal failure aborts the run.  Once a unit's exec_fallback has
\* raised (exec failed on its last attempt and the fallback is Node's own),
\* in the top-level flow or in a sub-flow, the exception exec raised last has
\* left run; no step of any flow follows, so no later unit runs in the inner
\* or the outer flow and the _orch calls that waited never resume; the shared
\* context holds the writes of the units that completed before and nothing of
\* the failed one; and run has returned no result.
C24_FailureAbortsRun ==
    fallback_calls > 0
        => /\ pc = "error"
           /\ error = ExecError(LastUnit, exec_calls)
           /\ current = LastUnit
           /\ shared = SubSeq(executed, 1, Len(executed) - 1)
           /\ result = None
           /\ ~ENABLED (Orchestrate \/ SubFlowEnter \/ SubFlowReturn \/ Lifecycle)
           /\ frame_of[Len(executed)] # 0 => stack # << >>

C24_Witness ==
    /\ pc = "error"
    /\ error = ExecError(2, 1)
    /\ executed = <<1, 2>>
    /\ frame_of = <<1, 1>>
    /\ shared = <<1>>
    /\ stack # << >>
    /\ start_node = SubFlow
    /\ successors[SubFlow] = DictSet(EmptyDict, "default", 3)

\* C25: a fatal error that reaches the caller of run carries the identity of
\* the unit whose step failed and that unit's prepared input.
C25_ErrorCarriesContext ==
    (pc = "error" /\ error.kind = "Exception")
        => /\ Attached(error).unit = LastUnit
           /\ Attached(error).prep_res # Unset

\* C26: a run changes no graph structure.  From the call of flow.run on, in
\* every run and however it ends, no step changes a unit's edge mapping, its
\* retry setting or the flow's start unit, and no call of next is made; the
\* one attribute of a unit a step writes is params, at the head of each
\* iteration of the loop for the unit about to run (now p) and for no other
\* unit; so a later run starts at the same start unit over the same edges.
RunSteps == pc # "build" \/ pc' # "build"

RunKeepsGraph ==
    /\ RunSteps => UNCHANGED <<successors, start_node, max_retries, overrides,
                               next_calls, registered, sub_start, own_params>>
    /\ (pc = "orch" /\ pc' = "prep")
          => /\ params'[current] = "p"
             /\ \A u \in Nodes \ {current} : params'[u] = params[u]
    /\ ~(pc = "orch" /\ pc' = "prep") => params' = params
    /\ (runs' # runs /\ pc' = "orch") => current' = start_node /\ executed' = << >>

C26_RunKeepsGraph == [][RunKeepsGraph]_vars

C26_Witness ==
    /\ runs = 2
    /\ pc = "done"
    /\ executed = <<1, 2>>
    /\ successors[1] = DictSet(DictSet(EmptyDict, "x", 2), "y", 1)
    /\ Len(printed) = 1
    /\ result = "z"

\* C27: concurrent runs over a shared unit are not isolated.  A unit has one
\* params attribute: each set_params of either run makes it that run's p,
\* whatever the other run is doing with the unit, and no other step of a run
\* restores or changes it; so a unit in the middle of its lifecycle for one
\* run holds the p of whichever run called set_params on it last.  The
\* witness is an interleaving in which that is the other run.
InLifecycleOf(t) == t_pc[t] \in {"prep", "exec", "post"}

SharedParamsSlot ==
    /\ \A t \in Runs :
          (t_pc[t] = "orch" /\ t_pc'[t] = "prep")
              => /\ holds'[t_current[t]] = t
                 /\ \A u \in Units \ {t_current[t]} : holds'[u] = holds[u]
    /\ (\A t \in Runs : ~(t_pc[t] = "orch" /\ t_pc'[t] = "prep")) => holds' = holds

C27_RunsShareParams ==
    /\ [][SharedParamsSlot]_vars
    /\ [](\A t \in Runs : InLifecycleOf(t) => holds[t_current[t]] \in Runs)

C27_Witness ==
    /\ t_pc["A"] = "exec"
    /\ t_pc["B"] = "prep"
    /\ t_current["A"] = 1
    /\ t_current["B"] = 1
    /\ holds[1] = "B"

\* C28: in the cyclic research graph a unit's whole lifecycle runs on every
\* visit.  The run goes decide, then search and decide again each time decide
\* returned "search", then answer once decide returned "answer"; every visit
\* is a new invocation that went through prep, exec and post; a run that has
\* returned ran decide k+1 times, search k times and answer once, at the end,
\* printed no warning and returned answer's label "done"; so it returns only
\* once decide has returned something other than "search".
Visits(u) == Cardinality({i \in 1..Len(executed) : executed[i] = u})

C28_CycleRevisits ==
    /\ \A i \in 1..Len(executed) :
          /\ i % 2 = 1 => executed[i] = Decide
          /\ i % 2 = 0 => executed[i] \in {Search, Answer}
          /\ executed[i] = Answer => i = Len(executed)
    /\ IsPrefix(shared, executed) /\ Len(executed) - Len(shared) <= 1
    /\ (pc = "route" /\ current = Decide) => last_action \in {"search", "answer"}
    /\ (pc = "orch" /\ executed # << >> /\ current # NoNode)
          => \/ LastUnit = Decide /\ last_action = "search" /\ current = Search
             \/ LastUnit = Decide /\ last_action = "answer" /\ current = Answer
             \/ LastUnit = Search /\ last_action = "decide" /\ current = Decide
    /\ (pc = "orch" /\ executed # << >> /\ current = NoNode) => LastUnit = Answer
    /\ pc = "done"
          => /\ LastUnit = Answer
             /\ Visits(Answer) = 1
             /\ Visits(Decide) = Visits(Search) + 1
             /\ Len(executed) = 2 * Visits(Search) + 2
             /\ shared = executed
             /\ result = "done"
             /\ printed = << >>

C28_Witness ==
    /\ pc = "done"
    /\ executed = <<Decide, Search, Decide, Search, Decide, Answer>>
    /\ result = "done"

\* C29: to_dict returns an independent copy.  The dict it returns has the
\* items the context has at the call, and the call leaves the context as it
\* is; a key added or rebound in the returned dict afterwards leaves the
\* context's items as they are; a later set or update of the context leaves
\* the returned dict's items, and so its keys, as they are.  Hence the
\* returned dict differs from the context's items at the call only by what
\* its holder wrote, and the context from them only by its own writes.
SnapshotIsolated ==
    /\ ToDict => SnapshotItems' = data /\ data' = data
    /\ \A key \in StateKeys, value \in StateValues :
          SnapshotSet(key, value)
              => /\ data' = data
                 /\ SnapshotItems' = DictSet(SnapshotItems, key, value)
    /\ \A key \in StateKeys, value \in StateValues :
          StateSet(key, value)
              => /\ SnapshotItems' = SnapshotItems
                 /\ DOMAIN SnapshotItems' = DOMAIN SnapshotItems
    /\ \A m \in StateDicts :
          StateUpdate(m) => SnapshotItems' = SnapshotItems

C29_SnapshotIsIndependent == [][SnapshotIsolated]_vars

C29_Witness ==
    /\ snapshot_ref = "new"
    /\ data_at_call = DictSet(EmptyDict, "a", "v0")
    /\ SnapshotItems = DictSet(DictSet(EmptyDict, "a", "v1"), "b", "v0")
    /\ data = DictSet(EmptyDict, "a", "v0")

C29_WitnessLaterWrite ==
    /\ snapshot_ref = "new"
    /\ data_at_call = DictSet(EmptyDict, "a", "v0")
    /\ SnapshotItems = data_at_call
    /\ data = DictSet(DictSet(EmptyDict, "a", "v1"), "b", "v0")

\* C30: the delay happens only between attempts.  time.sleep is called after
\* a failed attempt exactly when another attempt follows and wait is
\* positive: with a positive wait, before the attempt of index r it was called
\* r times; when all N attempts failed it was called N-1 times, none of them
\* after the last failure, before exec_fallback or after it; when attempt k
\* succeeded it was called k-1 times, none after the success.  With wait 0 it
\* is never called.
SleepsAfter(failures) == IF wait[current] > 0 THEN failures ELSE 0

C30_WaitsBetweenAttempts ==
    Invoked =>
        /\ pc = "prep" => sleeps = 0
        /\ pc = "exec" => sleeps = SleepsAfter(retry) /\ exec_calls = retry
        /\ pc = "fallback" => /\ exec_calls = max_retries[current]
                              /\ sleeps = SleepsAfter(max_retries[current] - 1)
        /\ fallback_calls > 0 => sleeps = SleepsAfter(max_retries[current] - 1)
        /\ (pc = "post" /\ exec_res.kind = "ok")
              => /\ exec_calls = exec_res.attempt
                 /\ sleeps = SleepsAfter(exec_res.attempt - 1)
        /\ (pc = "post" /\ exec_res.kind = "None") => sleeps = 0

C30_Witness ==
    /\ Invoked
    /\ wait[current] > 0
    /\ max_retries[current] = MaxRetries
    /\ pc = "error"
    /\ exec_calls = MaxRetries
    /\ sleeps = MaxRetries - 1

C30_WitnessSuccess ==
    /\ Invoked
    /\ wait[current] > 0
    /\ pc = "post"
    /\ exec_res = ExecOk(current, MaxRetries)
    /\ sleeps = MaxRetries - 1

\* C31: on exhaustion exec_fallback is given the exception of the last
\* attempt and the prepared input of the invocation.  When it is called, the
\* exception it receives is the one the max_retries-th call of exec raised,
\* and its prep_res is the object prep returned in this invocation, which is
\* the one input every call of exec was given.
C31_FallbackGetsLastFailure ==
    Invoked =>
        /\ pc = "fallback"
              => /\ exc = ExecError(current, max_retries[current])
                 /\ exec_given = {prep_res}
        /\ fallback_calls > 0
              => /\ fallback_given.exc = ExecError(current, max_retries[current])
                 /\ fallback_given.exc.attempt = exec_calls
                 /\ fallback_given.prep_res = PrepRes(current, Len(executed))
                 /\ exec_given = {fallback_given.prep_res}
        /\ fallback_calls = 0 => fallback_given = NoFallbackArgs

C31_Witness ==
    /\ Invoked
    /\ max_retries[current] = MaxRetries
    /\ fallback_calls = 1
    /\ fallback_given = [prep_res |-> PrepRes(current, 1),
                         exc |-> ExecError(current, MaxRetries)]
    /\ exec_calls = MaxRetries

\* C32: units inside a sub-flow run with the outer flow's parameters.  While
\* the sub-flow's _orch runs, the sub-flow's self.params is the outer _orch's
\* p and not the dict it was given before; a unit the sub-flow runs holds
\* the sub-flow's p, a copy of that; and key by key both have what the outer
\* flow's mapping has, so a key only the sub-flow or the unit held before
\* the run is gone (a key a unit has written in place during the run aside).
SameAsFlow(d) ==
    \A key \in ParamKeys :
        ParamGet(d, key) # WrittenValue
            => /\ key \in DOMAIN d <=> key \in DOMAIN flow_params
               /\ key \in DOMAIN flow_params => d[key] = flow_params[key]

NextCalled == next_calls' # next_calls

OneEntryChanged(src, action) ==
    /\ DOMAIN successors'[src] = DOMAIN successors[src] \cup {action}
    /\ \A label \in DOMAIN successors[src] \ {action} :
          successors'[src][label] = successors[src][label]
    /\ \A u \in Nodes \ {src} : successors'[u] = successors[u]
    /\ printed' = IF action \in DOMAIN successors[src]
                  THEN printed \o <<OverwriteWarning(action)>>
                  ELSE printed
    /\ UNCHANGED <<start_node, max_retries, overrides, wait>>

NextFrame ==
    NextCalled
        => \E src \in Nodes, action \in EdgeLabels :
              /\ OneEntryChanged(src, action)
              /\ yielded'.kind = "unit"
              /\ successors'[src][action] = yielded'.node

C33_NextChangesOneEntry == [][NextFrame]_vars

\* A label registered twice on unit 1, the second time for another target.
C33_Witness ==
    /\ next_calls = 2
    /\ registered[1] = DictSet(EmptyDict, "x", <<1, 2>>)
    /\ successors[1] = DictSet(EmptyDict, "x", 2)
    /\ successors[2] = EmptyDict
    /\ printed = <<OverwriteWarning("x")>>

\* Two labels registered on unit 1, each once.
C33_WitnessFirst ==
    /\ next_calls = 2
    /\ DOMAIN successors[1] = {"default", "x"}
    /\ successors[2] = EmptyDict
    /\ printed = << >>

\* C34: the retry loop wraps exec only.  While a retrying unit's _exec runs
\* and until post has run, prep has run once in this invocation however many
\* exec calls were made, every exec call was given what prep returned, and
\* post has not run; a result of exec or of exec_fallback is followed by
\* post; an invocation that returned ran post once, one that failed never.
Finalized == Len(shared)

C34_RetryWrapsExecOnly ==
    /\ Invoked /\ pc \in {"exec", "fallback", "post", "error"}
          => /\ prep_calls = 1
             /\ prep_res = PrepRes(current, Len(executed))
             /\ exec_given = IF exec_calls > 0 THEN {prep_res} ELSE {}
             /\ Finalized = Len(executed) - 1
    /\ Invoked /\ exec_res # Unset => pc = "post"
    /\ Invoked /\ pc = "done" => Finalized = Len(executed)
    /\ Invoked /\ pc = "error" => exec_res = Unset /\ result = None

C34_Witness ==
    /\ Invoked
    /\ pc = "post"
    /\ exec_calls = MaxRetries
    /\ exec_res = ExecOk(current, MaxRetries)
    /\ prep_calls = 1
    /\ exec_given = {PrepRes(current, 1)}

\* The invocation failed after the last attempt: post has not run.
C34_WitnessFailed ==
    /\ Invoked
    /\ pc = "error"
    /\ exec_calls = MaxRetries
    /\ prep_calls = 1
    /\ Finalized = 0

\* C35: what _exec returns.  With max_retries >= 1, post is given the value
\* of one of the exec calls or the value exec_fallback returned, and exec was
\* called at least once.  With max_retries = 0 neither exec nor exec_fallback
\* is called, post is given None and no error is raised.
ExecValues(u) == {ExecOk(u, k) : k \in 1..max_retries[u]}

Returned == current \in Units /\ pc = "post"

C35_ExecReturnsAttemptOrFallback ==
    /\ Returned /\ max_retries[current] >= 1
          => /\ exec_res \in ExecValues(current) \cup {ExecSubstitute(current)}
             /\ exec_res \in ExecValues(current) => exec_res.attempt = exec_calls
             /\ exec_res = ExecSubstitute(current) => fallback_calls = 1
             /\ exec_calls >= 1
    /\ current \in Units /\ pc # "build" /\ max_retries[current] = 0
          => /\ exec_calls = 0
             /\ fallback_calls = 0
             /\ exec_given = {}
             /\ error = NoError
             /\ pc \in {"prep", "exec", "post", "done"}
             /\ pc = "post" => exec_res = ExecNone

C35_Witness ==
    /\ Returned
    /\ max_retries[current] = MaxRetries
    /\ exec_res = ExecSubstitute(current)
    /\ exec_calls = MaxRetries

\* A unit built with max_retries = 0 has returned from run().
C35_WitnessZero ==
    /\ current \in Units
    /\ max_retries[current] = 0
    /\ pc = "done"
    /\ Len(shared) = 1
    /\ exec_calls = 0

\* C36: the routing warning is printed at a step exactly when the unit has
\* two or more edges, none labeled "default", and none labeled with the label
\* post returned (None taken as "default"); every other step selects a unit
\* or ends the flow with nothing printed.
WarningCase(succ, action) ==
    /\ Cardinality(DOMAIN succ) >= 2
    /\ "default" \notin DOMAIN succ
    /\ CapturedLabel(action) \notin DOMAIN succ

RouteStepWarnsIff(labels) ==
    (pc = "route" /\ current \in Units /\ last_action \in labels)
        => /\ WarningCase(successors[current], last_action)
                => /\ printed' = Append(printed, RouteWarning(successors[current], last_action))
                   /\ current' = NoNode
           /\ ~WarningCase(successors[current], last_action)
                => /\ printed' = printed
                   /\ current' \in Units
                        \/ (current' = NoNode /\ DOMAIN successors[current] = {})

C36_WarnsIffNoEdgeFits == [][RouteStepWarnsIff(ActionLabels)]_vars

\* The same for the labels other than "".
C36_WarnsIffNoEdgeFits_NonEmpty == [][RouteStepWarnsIff(ActionLabels \ {""})]_vars

\* A unit with the edges "" and "x" whose post returned "": the warning.
C36_EmptyLabelWarned ==
    /\ Routed
    /\ last_action = ""
    /\ DOMAIN RoutedEdges = {"", "x"}
    /\ current = NoNode
    /\ printed = <<RouteWarning(RoutedEdges, "")>>

\* C37: the units a flow run executes form a path of the graph.  The first
\* is the flow's start unit, each later one is the target of an edge of the
\* unit executed just before it, and so every executed unit is reachable
\* from the start unit; the unit the loop holds next is such a target too.
IsPath(seq) ==
    /\ Len(seq) >= 1 => seq[1] = start_node
    /\ \A i \in 1..(Len(seq) - 1) : seq[i + 1] \in Targets(seq[i])

C37_RunIsGraphPath ==
    (caller = "_orch" /\ pc # "build")
        => /\ IsPath(executed)
           /\ \A i \in 1..Len(executed) : executed[i] \in ReachableFrom({start_node})
           /\ (pc = "orch" /\ current # NoNode) => IsPath(Append(executed, current))

C37_Witness ==
    /\ caller = "_orch"
    /\ pc = "done"
    /\ executed = <<1, 2, 3>>
    /\ Targets(1) = {2}
    /\ Targets(2) = {3}

\* A branch: the unit on the edge not taken is not executed.
C37_WitnessBranch ==
    /\ caller = "_orch"
    /\ pc = "done"
    /\ executed = <<1, 2>>
    /\ Targets(1) = {2, 3}

\* C38: a failure of prep or of post is not retried.  Once a unit's prep or
\* post has raised, the run has failed with that exception and nothing of it
\* goes on: after prep's failure exec and exec_fallback were never called;
\* after post's failure exec was called no more than it took to get the
\* result post was given, and exec_fallback not at all unless that result is
\* its own; and the flow has run no unit after the failed one.
OutsideExec == {PrepError(u) : u \in Units} \cup {PostError(u) : u \in Units}

C38_FailureOutsideExecPropagates ==
    /\ error \in OutsideExec
          => /\ pc = "error"
             /\ error.unit = LastUnit /\ current = LastUnit
             /\ prep_calls = 1
             /\ Len(shared) = Len(executed) - 1
             /\ result = None
             /\ ~ENABLED (Orchestrate \/ Lifecycle \/ PrepRaises \/ PostRaises)
    /\ error \in {PrepError(u) : u \in Units}
          => exec_calls = 0 /\ fallback_calls = 0 /\ exec_res = Unset
    /\ error \in {PostError(u) : u \in Units}
          => /\ exec_res.kind = "ok" => exec_res.attempt = exec_calls /\ fallback_calls = 0
             /\ exec_res.kind = "substitute"
                   => exec_calls = max_retries[current] /\ fallback_calls = 1
             /\ exec_res.kind = "None" => exec_calls = 0 /\ fallback_calls = 0
             /\ exec_res # Unset
    /\ exc \notin OutsideExec

C38_Witness ==
    /\ caller = "_orch"
    /\ pc = "error"
    /\ error = PostError(2)
    /\ executed = <<1, 2>>
    /\ shared = <<1>>
    /\ max_retries[2] = MaxRetries
    /\ exec_calls = 1
    /\ DOMAIN successors[2] # {}

\* The second unit's prep raised.
C38_WitnessPrep ==
    /\ caller = "_orch"
    /\ pc = "error"
    /\ error = PrepError(2)
    /\ executed = <<1, 2>>
    /\ max_retries[2] = MaxRetries
    /\ DOMAIN successors[2] # {}

\* C39: the label "" is routed as None is, that is as "default".  For every
\* unit's edge mapping get_next_node answers the same for "" and for None,
\* and warns for the one when it warns for the other; after a post that
\* returned "" the next unit is that answer, and beside other edges an edge
\* labeled "" is not taken: the "default" edge is, or the flow ends.
C39_EmptyLabelIsDefault ==
    /\ \A u \in Units :
          /\ GetNextNode(successors[u], "") = GetNextNode(successors[u], None)
          /\ RouteWarns(successors[u], "") <=> RouteWarns(successors[u], None)
    /\ (Routed /\ last_action = "")
          => /\ current = GetNextNode(RoutedEdges, None)
             /\ ("" \in DOMAIN RoutedEdges /\ Cardinality(DOMAIN RoutedEdges) >= 2)
                   => current = DictGet(RoutedEdges, "default")

C39_Witness ==
    /\ Routed
    /\ last_action = ""
    /\ DOMAIN RoutedEdges = {"", "default"}
    /\ RoutedEdges[""] # RoutedEdges["default"]
    /\ current = RoutedEdges["default"]

====
